---------------------------- MODULE Spec2Model ----------------------------
(***************************************************************************)
(* A model of the creative retrieval worker of fb_ad_creative_retriever.py *)
(* (FacebookAdCreativeRetriever) together with the stores it writes: the   *)
(* fetch-batch table, the ad_creatives and ad_snapshot_metadata tables and *)
(* the image and video buckets.                                            *)
(*                                                                         *)
(* The worker is one sequential process; pc is its position in             *)
(* retreive_and_store_ad_creatives.  One step of the model is one archive  *)
(* id retrieved and processed, one database call, one alert or one sleep.  *)
(* A KeyboardInterrupt may arrive between any two steps.                   *)
(***************************************************************************)
EXTENDS Integers, Sequences, FiniteSets, TLC

---------------------------------------------------------------------------
(* Bounds of the model *)

\* Number of batches the worker leases in one run.
MaxLeases == 2

\* commit_to_db_every_n_processed: LIMITS.BATCH_SIZE of the configuration.
ChunkSize == 2

\* Snapshot fetches of one run in which the extractor raises a browser error.
MaxBrowserErrors == 1

\* upload_blob calls every concurrent caller makes.
MaxCalls == 2

\* Distinct fingerprints in a fingerprint table of the deduper.
MaxFingerprints == 3

\* Bits of a fingerprint (64 in the store).
FingerprintBits == 7

\* Creatives the extractor returns for one archive id.
MaxCreatives == 2

---------------------------------------------------------------------------
(* Program constants *)

TOO_MANY_REQUESTS_SLEEP_TIME == 4 * 60 * 60

NO_AVAILABLE_WORK_SLEEP_TIME == 1 * 60 * 60

\* 2000 in the source; scaled so that a run of MaxLeases batches reaches it.
RESET_BROWSER_AFTER_PROCESSING_N_SNAPSHOTS == 4

\* LIMITS.max_video_download_size of the configuration (default 512000000),
\* scaled: the model's videos have a content-length around this value.
max_video_download_size == 2

\* Python's None in a hash, path or url field.
None == <<>>

\* SnapshotFetchStatus
UNKNOWN == 0
SUCCESS == 1
NO_CONTENT_FOUND == 2
INVALID_ID_ERROR == 3
AGE_RESTRICTION_ERROR == 4
NO_AD_CREATIVES_FOUND == 5
INTELLECTUAL_PROPERTY_VIOLATION_ERROR == 6
SNAPSHOT_PERMANENTLY_UNAVAILABLE_ERROR == 7

---------------------------------------------------------------------------
(* The data the worker runs on *)

\* The fetch batches of the store: batch id and archive ids.  Batch 2 lists
\* one archive id twice.
BatchIds == {1, 2}

ArchiveIdsOf(batch_id) == IF batch_id = 1 THEN <<1, 2, 3>> ELSE <<4, 4>>

ArchiveIds == UNION {{ArchiveIdsOf(b)[i] : i \in 1..Len(ArchiveIdsOf(b))} : b \in BatchIds}

\* Image byte strings.  Images 1 and 2 differ in their bytes and have the same
\* difference hash; image 3 does not decode.
Images == {1, 2, 3}

Decodes(image) == image \in {1, 2}

\* Video urls; what a GET of each answers.  raises: the request raises a
\* requests.RequestException; is_int: int() accepts the content-length header.
Videos == {1, 2, 3, 4, 5}

VideoResponse(video) ==
    CASE video = 1 -> [raises |-> FALSE, has_content_length |-> TRUE, is_int |-> TRUE,
                       content_length |-> max_video_download_size, content |-> 1]
      [] video = 2 -> [raises |-> FALSE, has_content_length |-> TRUE, is_int |-> TRUE,
                       content_length |-> max_video_download_size + 1, content |-> 2]
      [] video = 4 -> [raises |-> FALSE, has_content_length |-> TRUE, is_int |-> FALSE,
                       content_length |-> 0, content |-> 4]
      [] video = 5 -> [raises |-> TRUE, has_content_length |-> TRUE, is_int |-> TRUE,
                       content_length |-> 1, content |-> 5]
      [] OTHER     -> [raises |-> FALSE, has_content_length |-> FALSE, is_int |-> FALSE,
                       content_length |-> 0, content |-> 3]

\* A creative of the extractor: 0 is an absent body, image or video_url.
Creative(body, image, video) == [body |-> body, image |-> image, video_url |-> video]

\* What the snapshot of each ad holds: the creative lists the extractor may
\* return for the archive id (<<>>: a snapshot without creatives) ...
CreativeListsOf(archive_id) ==
    CASE archive_id = 1 -> { <<Creative(1, 1, 0)>>,
                             <<Creative(1, 1, 0), Creative(1, 1, 0)>> }
      [] archive_id = 2 -> { <<Creative(1, 2, 0)>>,
                             <<>> }
      [] archive_id = 3 -> { <<Creative(0, 3, 0), Creative(1, 0, 0)>>,
                             <<Creative(0, 1, 2)>>,
                             <<Creative(0, 0, 3)>> }
      [] OTHER          -> { <<Creative(1, 1, 0)>>,
                             <<Creative(0, 1, 1)>> }

\* ... and the errors it may raise for the archive id because of the snapshot.
SnapshotErrorsOf(archive_id) ==
    CASE archive_id = 1 -> {"RequestException", "SnapshotNoContentFoundError",
                            "SnapshotMissingMediaError"}
      [] archive_id = 2 -> {"SnapshotAgeRestrictionError",
                            "SnapshotIntellectualPropertyViolationError"}
      [] archive_id = 3 -> {"SnapshotInvalidIdError", "SnapshotWrongAdArchiveIdError"}
      [] OTHER          -> {"RequestException", "SnapshotPermanentlyUnavailableError"}

---------------------------------------------------------------------------
(* Hash kit and bucket paths *)

\* hashlib.sha256(bytes).hexdigest(): one digest per byte string.
Sha256(kind, bytes) == <<"sha256", kind, bytes>>

\* get_image_dhash: images 1 and 2 share their difference hash.
get_image_dhash(image_bytes) == <<"dhash", (image_bytes + 1) \div 2>>

\* '%x' % sim_hash_ad_creative_text.hash_ad_creative_text(text)
hash_ad_creative_text(text) == <<"simhash", text>>

make_image_hash_file_path(image_hash) == <<"jpg", image_hash>>

make_video_sha256_hash_file_path(video_sha256_hash) == <<"mp4", video_sha256_hash>>

\* Mutant of upload_blob: the blob id is returned and nothing is uploaded.
upload_blob_returns_without_upload(bucket, blob_path, blob_data) == bucket

\* upload_blob as one caller alone runs it: a bucket is a function from the
\* paths that hold an object to the object's bytes.
upload_blob(bucket, blob_path, blob_data) ==
    IF blob_path \in DOMAIN bucket
    THEN bucket
    ELSE [p \in DOMAIN bucket \cup {blob_path} |->
             IF p = blob_path THEN blob_data ELSE bucket[p]]

EmptyBucket == [p \in {} |-> 0]

---------------------------------------------------------------------------
(* download_video: the attributes of the downloaded video, or None, and the
   videos bucket afterwards *)

\* Mutant of download_video: a content-length equal to the maximum is refused.
download_video_refuses_max_size(videos, video_url) ==
    LET response == VideoResponse(video_url) IN
    IF response.raises
    THEN [attributes |-> None, videos |-> videos, failures |-> 1, successes |-> 0]
    ELSE IF ~response.has_content_length
    THEN [attributes |-> None, videos |-> videos, failures |-> 0, successes |-> 0]
    ELSE IF ~response.is_int
    THEN [attributes |-> None, videos |-> videos, failures |-> 0, successes |-> 0]
    ELSE IF response.content_length >= max_video_download_size
    THEN [attributes |-> None, videos |-> videos, failures |-> 1, successes |-> 0]
    ELSE LET video_sha256 == Sha256("video", response.content)
             video_bucket_path == make_video_sha256_hash_file_path(video_sha256)
         IN  [attributes |-> <<video_sha256, video_bucket_path>>,
              videos |-> upload_blob(videos, video_bucket_path, response.content),
              failures |-> 0, successes |-> 1]

\* download_video(archive_id, video_url) with the videos bucket as it is.
\*   attributes: DownloadedVideoAttributes, or None
\*   videos:     the bucket afterwards
\*   failures, successes: what is added to num_video_download_failure/_success
download_video(videos, video_url) ==
    LET response == VideoResponse(video_url) IN
    IF response.raises
    THEN [attributes |-> None, videos |-> videos, failures |-> 1, successes |-> 0]
    ELSE IF ~response.has_content_length
    THEN [attributes |-> None, videos |-> videos, failures |-> 0, successes |-> 0]
    ELSE IF ~response.is_int
    THEN [attributes |-> None, videos |-> videos, failures |-> 0, successes |-> 0]
    ELSE IF response.content_length > max_video_download_size
    THEN [attributes |-> None, videos |-> videos, failures |-> 1, successes |-> 0]
    ELSE LET video_sha256 == Sha256("video", response.content)
             video_bucket_path == make_video_sha256_hash_file_path(video_sha256)
         IN  [attributes |-> <<video_sha256, video_bucket_path>>,
              videos |-> upload_blob(videos, video_bucket_path, response.content),
              failures |-> 0, successes |-> 1]

---------------------------------------------------------------------------
(* process_fetched_ad_creative_data *)

AdCreativeRecord(archive_id, text_sha256_hash, text_sim_hash, image_sha256_hash, image_sim_hash, image_bucket_path, video_sha256_hash, video_bucket_path, video_downloaded_url) ==
    [archive_id |-> archive_id,
     text_sha256_hash |-> text_sha256_hash,
     text_sim_hash |-> text_sim_hash,
     image_sha256_hash |-> image_sha256_hash,
     image_sim_hash |-> image_sim_hash,
     image_bucket_path |-> image_bucket_path,
     video_sha256_hash |-> video_sha256_hash,
     video_bucket_path |-> video_bucket_path,
     video_downloaded_url |-> video_downloaded_url]

\* Mutant of UniqueConstraintAttrs: the text hash is left out of the tuple.
UniqueConstraintAttrs_without_text_sha256(record) ==
    <<record.archive_id, None, record.image_sha256_hash, record.video_sha256_hash>>

\* AdCreativeRecordUniqueConstraintAttributes
UniqueConstraintAttrs(record) ==
    <<record.archive_id, record.text_sha256_hash, record.image_sha256_hash,
      record.video_sha256_hash>>

\* The state of the loop over fetched_data.creatives.
CreativeLoopStart(images, videos) ==
    [seen_unique_constraint_attrs |-> {}, ad_creative_records |-> <<>>,
     images |-> images, videos |-> videos,
     num_image_download_failure |-> 0, num_image_download_success |-> 0,
     num_video_download_failure |-> 0, num_video_download_success |-> 0]

\* Mutant of ProcessCreative: the except clause of OSError counts the failure
\* and does not `continue`; the creative goes on without image fields.
ProcessCreative_without_continue(archive_id, creative, st) ==
    LET has_image == creative.image # 0 /\ Decodes(creative.image)
        image_dhash == IF has_image THEN get_image_dhash(creative.image) ELSE None
        image_sha256 == IF has_image THEN Sha256("image", creative.image) ELSE None
        image_bucket_path ==
            IF has_image THEN make_image_hash_file_path(image_dhash) ELSE None
        images1 == IF has_image
                   THEN upload_blob(st.images, image_bucket_path, creative.image)
                   ELSE st.images
        downloaded == IF creative.video_url # 0
                      THEN download_video(st.videos, creative.video_url)
                      ELSE [attributes |-> None, videos |-> st.videos,
                            failures |-> 0, successes |-> 0]
        counted == [st EXCEPT
            !.num_image_download_failure =
                @ + (IF creative.image # 0 /\ ~has_image THEN 1 ELSE 0),
            !.images = images1,
            !.videos = downloaded.videos,
            !.num_image_download_success = @ + (IF has_image THEN 1 ELSE 0),
            !.num_video_download_failure = @ + downloaded.failures,
            !.num_video_download_success = @ + downloaded.successes]
        video_sha256 ==
            IF downloaded.attributes # None THEN downloaded.attributes[1] ELSE None
        video_bucket_path ==
            IF downloaded.attributes # None THEN downloaded.attributes[2] ELSE None
        has_body == creative.body # 0
        text_sim_hash == IF has_body THEN hash_ad_creative_text(creative.body) ELSE None
        text_sha256_hash == IF has_body THEN Sha256("text", creative.body) ELSE None
        record == AdCreativeRecord(
            archive_id, text_sha256_hash, text_sim_hash, image_sha256, image_dhash,
            image_bucket_path, video_sha256, video_bucket_path,
            IF creative.video_url # 0 THEN <<"url", creative.video_url>> ELSE None)
        unique_constraint_attrs == UniqueConstraintAttrs(record)
    IN  IF unique_constraint_attrs \in st.seen_unique_constraint_attrs
        THEN counted
        ELSE [counted EXCEPT
                 !.seen_unique_constraint_attrs = @ \cup {unique_constraint_attrs},
                 !.ad_creative_records = Append(@, record)]

\* One iteration of the loop, for one creative.
ProcessCreative(archive_id, creative, st) ==
    IF creative.image # 0 /\ ~Decodes(creative.image)
    THEN \* OSError from get_image_dhash: count and continue
         [st EXCEPT !.num_image_download_failure = @ + 1]
    ELSE
    LET has_image == creative.image # 0
        image_dhash == IF has_image THEN get_image_dhash(creative.image) ELSE None
        image_sha256 == IF has_image THEN Sha256("image", creative.image) ELSE None
        image_bucket_path ==
            IF has_image THEN make_image_hash_file_path(image_dhash) ELSE None
        images1 == IF has_image
                   THEN upload_blob(st.images, image_bucket_path, creative.image)
                   ELSE st.images
        downloaded == IF creative.video_url # 0
                      THEN download_video(st.videos, creative.video_url)
                      ELSE [attributes |-> None, videos |-> st.videos,
                            failures |-> 0, successes |-> 0]
        counted == [st EXCEPT
            !.images = images1,
            !.videos = downloaded.videos,
            !.num_image_download_success = @ + (IF has_image THEN 1 ELSE 0),
            !.num_video_download_failure = @ + downloaded.failures,
            !.num_video_download_success = @ + downloaded.successes]
        video_sha256 ==
            IF downloaded.attributes # None THEN downloaded.attributes[1] ELSE None
        video_bucket_path ==
            IF downloaded.attributes # None THEN downloaded.attributes[2] ELSE None
        has_body == creative.body # 0
        text_sim_hash == IF has_body THEN hash_ad_creative_text(creative.body) ELSE None
        text_sha256_hash == IF has_body THEN Sha256("text", creative.body) ELSE None
        record == AdCreativeRecord(
            archive_id, text_sha256_hash, text_sim_hash, image_sha256, image_dhash,
            image_bucket_path, video_sha256, video_bucket_path,
            IF creative.video_url # 0 THEN <<"url", creative.video_url>> ELSE None)
        unique_constraint_attrs == UniqueConstraintAttrs(record)
    IN  IF unique_constraint_attrs \in st.seen_unique_constraint_attrs
        THEN counted
        ELSE [counted EXCEPT
                 !.seen_unique_constraint_attrs = @ \cup {unique_constraint_attrs},
                 !.ad_creative_records = Append(@, record)]

RECURSIVE CreativeLoop(_, _, _)
CreativeLoop(archive_id, creatives, st) ==
    IF creatives = <<>>
    THEN st
    ELSE CreativeLoop(archive_id, Tail(creatives),
                      ProcessCreative(archive_id, Head(creatives), st))

\* The records of one archive id and the buckets afterwards.
process_fetched_ad_creative_data(archive_id, creatives, images, videos) ==
    CreativeLoop(archive_id, creatives, CreativeLoopStart(images, videos))

---------------------------------------------------------------------------
(* The extractor: what creative_retriever.retrieve_ad answers for an archive id *)

BrowserErrors == {"BrowserTimeoutError", "WebDriverException"}

RateLimitErrors == {"TooManyRequestsError", "EndBatchCrawlerException"}

\* wait_before_next_batch_seconds of a rate-limit error: <<>> when the error
\* has no such attribute.
SuggestedWaits == {<<>>, <<10>>}

Outcome(kind, creatives, wait) == [kind |-> kind, creatives |-> creatives, wait |-> wait]

\* What the extractor may answer for an archive id; it raises a browser error
\* only while browser_errors allows one more.
Outcomes(archive_id, browser_errors) ==
    {Outcome("returned", creatives, <<>>) : creatives \in CreativeListsOf(archive_id)}
    \cup {Outcome(kind, <<>>, <<>>) : kind \in SnapshotErrorsOf(archive_id)}
    \cup {Outcome(kind, <<>>, <<>>) :
            kind \in IF browser_errors < MaxBrowserErrors THEN BrowserErrors ELSE {}}
    \cup {Outcome(kind, <<>>, wait) : kind \in RateLimitErrors, wait \in SuggestedWaits}

NoError == [kind |-> "none", wait |-> <<>>]

ErrorOf(outcome) == [kind |-> outcome.kind, wait |-> outcome.wait]

---------------------------------------------------------------------------
(* retrieve_ad *)

\* Mutant of FetchStatusOf: SnapshotMissingMediaError has no except clause of
\* its own status and leaves the status UNKNOWN.
FetchStatusOf_missing_media_unknown(outcome) ==
    CASE outcome.kind = "returned" /\ outcome.creatives # <<>> -> SUCCESS
      [] outcome.kind = "returned" /\ outcome.creatives = <<>> -> NO_AD_CREATIVES_FOUND
      [] outcome.kind \in {"RequestException", "SnapshotMissingMediaError"} -> UNKNOWN
      [] outcome.kind = "SnapshotNoContentFoundError" -> NO_CONTENT_FOUND
      [] outcome.kind = "SnapshotAgeRestrictionError" -> AGE_RESTRICTION_ERROR
      [] outcome.kind = "SnapshotIntellectualPropertyViolationError"
            -> INTELLECTUAL_PROPERTY_VIOLATION_ERROR
      [] outcome.kind \in {"SnapshotInvalidIdError", "SnapshotWrongAdArchiveIdError"}
            -> INVALID_ID_ERROR
      [] outcome.kind = "SnapshotPermanentlyUnavailableError"
            -> SNAPSHOT_PERMANENTLY_UNAVAILABLE_ERROR

\* The except clauses of retrieve_ad and the two assignments of its try body.
FetchStatusOf(outcome) ==
    CASE outcome.kind = "returned" /\ outcome.creatives # <<>> -> SUCCESS
      [] outcome.kind = "returned" /\ outcome.creatives = <<>> -> NO_AD_CREATIVES_FOUND
      [] outcome.kind = "RequestException" -> UNKNOWN
      [] outcome.kind \in {"SnapshotNoContentFoundError", "SnapshotMissingMediaError"}
            -> NO_CONTENT_FOUND
      [] outcome.kind = "SnapshotAgeRestrictionError" -> AGE_RESTRICTION_ERROR
      [] outcome.kind = "SnapshotIntellectualPropertyViolationError"
            -> INTELLECTUAL_PROPERTY_VIOLATION_ERROR
      [] outcome.kind \in {"SnapshotInvalidIdError", "SnapshotWrongAdArchiveIdError"}
            -> INVALID_ID_ERROR
      [] outcome.kind = "SnapshotPermanentlyUnavailableError"
            -> SNAPSHOT_PERMANENTLY_UNAVAILABLE_ERROR
      [] OTHER -> UNKNOWN

\* The errors retrieve_ad does not catch: they leave it before the metadata
\* record is built.
Propagates(outcome) == outcome.kind \in BrowserErrors \cup RateLimitErrors

\* Mutant of retrieve_ad: the except clause of requests.RequestException
\* returns before the metadata record is built.
retrieve_ad_request_exception_returns_early(archive_id, first, second) ==
    LET retried == first.kind \in BrowserErrors
        final == IF retried THEN second ELSE first
    IN  [raised |-> IF Propagates(final) THEN ErrorOf(final) ELSE NoError,
         returned |-> final.kind = "returned",
         creatives |-> final.creatives,
         records |-> IF Propagates(final) \/ final.kind = "RequestException"
                     THEN <<>>
                     ELSE <<[archive_id |-> archive_id,
                             snapshot_fetch_status |-> FetchStatusOf(final)]>>,
         resets |-> IF retried THEN 1 ELSE 0,
         calls |-> IF retried THEN 2 ELSE 1]

\* Mutant of retrieve_ad: the except clause of the browser errors calls the
\* extractor again without reset_creative_retriever.
retrieve_ad_retries_without_reset(archive_id, first, second) ==
    LET retried == first.kind \in BrowserErrors
        final == IF retried THEN second ELSE first
    IN  [raised |-> IF Propagates(final) THEN ErrorOf(final) ELSE NoError,
         returned |-> final.kind = "returned",
         creatives |-> final.creatives,
         records |-> IF Propagates(final)
                     THEN <<>>
                     ELSE <<[archive_id |-> archive_id,
                             snapshot_fetch_status |-> FetchStatusOf(final)]>>,
         resets |-> 0,
         calls |-> IF retried THEN 2 ELSE 1]

\* retrieve_ad(archive_id), the extractor answering `first` and, when that is
\* a browser error, `second` on the new browser session.
\*   raised:   the error that leaves retrieve_ad, or NoError
\*   returned: whether screenshot_and_creatives is set
\*   records:  the AdSnapshotMetadataRecords built
\*   resets:   the calls of reset_creative_retriever
\*   calls:    the calls of the extractor
retrieve_ad(archive_id, first, second) ==
    LET retried == first.kind \in BrowserErrors
        final == IF retried THEN second ELSE first
    IN  [raised |-> IF Propagates(final) THEN ErrorOf(final) ELSE NoError,
         returned |-> final.kind = "returned",
         creatives |-> final.creatives,
         records |-> IF Propagates(final)
                     THEN <<>>
                     ELSE <<[archive_id |-> archive_id,
                             snapshot_fetch_status |-> FetchStatusOf(final)]>>,
         resets |-> IF retried THEN 1 ELSE 0,
         calls |-> IF retried THEN 2 ELSE 1]

---------------------------------------------------------------------------
(* process_archive_ids before any archive id of its chunk is fetched *)

IdleChunkRun ==
    [pc |-> "idle", archive_ids |-> <<>>, k |-> 0, pending |-> <<>>,
     st |-> CreativeLoopStart(EmptyBucket, EmptyBucket),
     snapshot_metadata_records |-> <<>>, ad_creative_records |-> <<>>, log |-> <<>>]

---------------------------------------------------------------------------
(* The callers of upload_blob that run at the same time: the pipeline runs on
   several hosts, which share the buckets *)

Uploaders == {1, 2}

\* tenacity.stop_after_attempt(4)
stop_after_attempt == 4

\* blob.id of the object at a path.
BlobId(blob_path) == <<"blob", blob_path>>

IdleUploader ==
    [pc |-> "idle", image |-> 0, attempt |-> 0, calls |-> 0, returned |-> None]

---------------------------------------------------------------------------
(* The creative retriever generator before its first next() *)

\* Calls of reset_creative_retriever followed in one run.
MaxResets == 6

\*   pc:       "worker" (the generator is not running), or the generator's
\*             position ("exit": leaving the with block it was suspended in;
\*             "enter": at web_browser(); "build": at factory.build), or
\*             "raised" (next() raised)
\*   open:     the browser contexts that are open
\*   browser:  the browser of the with block the generator is in (0: none)
\*   creative_retriever: the browser self.creative_retriever was built on (0: None)
\*   resets:   the calls of reset_creative_retriever so far
\*   used:     the snapshots retrieved with self.creative_retriever
IdleBrowserRun ==
    [pc |-> "worker", open |-> {}, browser |-> 0, creative_retriever |-> 0,
     resets |-> 0, used |-> 0]

---------------------------------------------------------------------------
(* ad_deduper: the fingerprints, the union-find and the near-neighbour
   indexes *)

BIT_DIFFERENCE_THRESHOLD == 3

\* The archive ids with creatives in the store, and the fingerprints of their
\* texts or images.  0, 7 and 63 are a chain of steps of 3 bits whose ends
\* are 6 bits apart; 120 is 4 bits from 0 and from 63, and 7 bits from 7.
ClusterArchiveIds == {1, 2, 3}

Fingerprints == {0, 7, 63, 120}

\* all_ad_creative_text_simhashes / all_ad_creative_image_simhashes: what the
\* store may answer, a dict sim_hash -> set of archive ids.
SimhashTables ==
    UNION {[S -> (SUBSET ClusterArchiveIds) \ {{}}] :
              S \in {S \in SUBSET Fingerprints : Cardinality(S) <= MaxFingerprints}}

Bit(n, i) == (n \div (2 ^ i)) % 2

\* dhash.get_num_bits_different, and the distance of two Simhash values.
get_num_bits_different(hash1, hash2) ==
    Cardinality({i \in 0..(FingerprintBits - 1) : Bit(hash1, i) # Bit(hash2, i)})

\* min(archive_id_set)
Min(archive_id_set) == CHOOSE a \in archive_id_set : \A b \in archive_id_set : a <= b

\* str(archive_id), and int(x) of such a string.
str(archive_id) == <<"str", archive_id>>

int(x) == x[2]

\* itertools.combinations(s, 2), as unordered pairs.
combinations(s) == {pair \in SUBSET s : Cardinality(pair) = 2}

\* unionfind.UnionFind(): the components of the elements it was given.
UnionFind == {}

\* The component of x, a new one when x is no element yet.
ComponentOf(union_find, x) ==
    IF \E c \in union_find : x \in c
    THEN CHOOSE c \in union_find : x \in c
    ELSE {x}

\* Mutant of union: an element that has a component of several elements
\* already is not connected to another one.
union_keeps_first_component(union_find, x, y) ==
    LET cx == ComponentOf(union_find, x)
        cy == ComponentOf(union_find, y)
    IN  IF Cardinality(cx) > 1
        THEN union_find \cup {cx, cy}
        ELSE (union_find \ {cx, cy}) \cup {cx \cup cy}

union(union_find, x, y) ==
    LET cx == ComponentOf(union_find, x)
        cy == ComponentOf(union_find, y)
    IN  (union_find \ {cx, cy}) \cup {cx \cup cy}

components(union_find) == union_find

\* for archive_id_pair in pairs: union_find.union(archive_id_pair[0], archive_id_pair[1])
RECURSIVE union_pairs(_, _)
union_pairs(union_find, pairs) ==
    IF pairs = {}
    THEN union_find
    ELSE LET pair == CHOOSE pair \in pairs : TRUE
             x == CHOOSE x \in pair : TRUE
             y == CHOOSE y \in pair : y # x
         IN  union_pairs(union(union_find, x, y), pairs \ {pair})

\* Mutant of connect_same_simhash: the archive ids of one fingerprint are not
\* connected.
connect_same_simhash_skipped(union_find, simhash_to_archive_ids) ==
    union_find

\* Lines 39-41 and 84-86, for every sim_hash: connect all archive ids that
\* have the same simhash.
connect_same_simhash(union_find, simhash_to_archive_ids) ==
    union_pairs(union_find,
                UNION {combinations(simhash_to_archive_ids[sim_hash]) :
                          sim_hash \in DOMAIN simhash_to_archive_ids})

\* Lines 34-38: one entry for every simhash, with its lowest archive id.
min_archive_id_and_sim_hash_tuples(simhash_to_archive_ids) ==
    {<<str(Min(simhash_to_archive_ids[sim_hash])), sim_hash>> :
        sim_hash \in DOMAIN simhash_to_archive_ids}

\* simhash.SimhashIndex(objs, k=k)
SimhashIndex(objs, k) == [objs |-> objs, k |-> k]

\* Mutant of get_near_dups: simhashes one bit farther than k are returned too.
get_near_dups_one_bit_farther(index, sim_hash) ==
    {obj[1] : obj \in {obj \in index.objs :
                          get_num_bits_different(obj[2], sim_hash) <= index.k + 1}}

\* SimhashIndex.get_near_dups: the ids of the entries within k bits.
get_near_dups(index, sim_hash) ==
    {obj[1] : obj \in {obj \in index.objs :
                          get_num_bits_different(obj[2], sim_hash) <= index.k}}

ArchiveIDAndSimHash(archive_id, sim_hash) == [archive_id |-> archive_id, sim_hash |-> sim_hash]

\* Lines 78-83: the BKTree, holding one item for every simhash, with its
\* lowest archive id.
BKTree(simhash_to_archive_ids) ==
    {ArchiveIDAndSimHash(Min(simhash_to_archive_ids[sim_hash]), sim_hash) :
        sim_hash \in DOMAIN simhash_to_archive_ids}

\* BKTree.find(item, n): (distance, item) of every item within n.
find(tree, item, n) ==
    {<<get_num_bits_different(x.sim_hash, item.sim_hash), x>> :
        x \in {x \in tree : get_num_bits_different(x.sim_hash, item.sim_hash) <= n}}

AdClusterRecord(archive_id, ad_cluster_id) ==
    [archive_id |-> archive_id, ad_cluster_id |-> ad_cluster_id]

\* Mutant of ClusterNumberings: next_new_cluster_id is not put back to 0 for
\* the pass, the numbers go on from 1.
ClusterNumberings_from_one(text_clusters) ==
    {numbering \in [text_clusters -> 1..Cardinality(text_clusters)] :
        \A c, d \in text_clusters : c # d => numbering[c] # numbering[d]}

\* The numberings of the components: next_new_cluster_id in the iteration
\* order of components().
ClusterNumberings(text_clusters) ==
    {numbering \in [text_clusters -> 0..(Cardinality(text_clusters) - 1)] :
        \A c, d \in text_clusters : c # d => numbering[c] # numbering[d]}

\* Lines 140-147 and 158-165: a record for every archive id of every
\* component (int(archive_id) of an archive id that is an int is that id).
ad_cluster_records_of(text_clusters, numbering) ==
    UNION {{AdClusterRecord(archive_id, numbering[component]) : archive_id \in component} :
              component \in text_clusters}

\* insert_or_update_ad_text_cluster_records / _image_cluster_records followed
\* by commit: the table archive_id -> ad_cluster_id afterwards.
insert_or_update_ad_cluster_records(table, ad_cluster_records) ==
    [archive_id \in DOMAIN table \cup {r.archive_id : r \in ad_cluster_records} |->
        IF \E r \in ad_cluster_records : r.archive_id = archive_id
        THEN (CHOOSE r \in ad_cluster_records : r.archive_id = archive_id).ad_cluster_id
        ELSE table[archive_id]]

EmptyClusterTable == [archive_id \in {} |-> 0]

\* update_ad_clusters before it is called.
\*   pass:    the pass that runs ("text", then "image")
\*   records_of: the pass whose table and records the fields hold, once written
\*   committed: the passes whose records the run committed
\*   failed_in: where the error was raised that ended the run
\*   last_queried: the simhash of the last iteration of the query loop
IdleClusterRun ==
    [pc |-> "idle", pass |-> "none", simhash_to_archive_ids |-> <<>>, index |-> {},
     union_find |-> UnionFind, todo |-> {}, last_queried |-> None,
     ad_cluster_records |-> {},
     records_of |-> "none", committed |-> {}, failed_in |-> "none"]

---------------------------------------------------------------------------
(* State *)

VARIABLES
    pc,                         \* the worker's position in retreive_and_store_ad_creatives
    error,                      \* the exception in flight; at "exited", the one that left the loop
    creative_retriever,         \* the browser session of self.creative_retriever (0: None)
    since_reset,                \* num_snapshots_processed_since_chromedriver_reset
    session_snapshots,          \* archive ids the browser session in use was called for
                                \* (observation only, kept under SpecSessions)
    current_batch_id,           \* self.current_batch_id (0: None)
    idx,                        \* position in archive_id_batch of the next archive id
    snapshot_metadata_records,  \* of the running process_archive_ids call
    ad_creative_records,        \* of the running process_archive_ids call
    last_retrieve,              \* what the last retrieve_ad call did (observation only)
    browser_errors,             \* fetches that met a browser error so far (observation only)
    fetch_batches,              \* store: the state of every fetch batch
    ad_creatives,               \* store: the committed creative rows
    ad_snapshot_metadata,       \* store: the committed metadata row of every archive id
    images_bucket,              \* facebook_ad_images
    videos_bucket,              \* facebook_ad_videos
    leases,                     \* the batches leased so far, with the calls made for each
    slept,                      \* the duration of the last time.sleep (0: none yet)
    uploaders,                  \* the position of every concurrent upload_blob caller
    uploaded,                   \* the upload_from_string calls made, by image
    chunk_run,                  \* a process_archive_ids call followed creative by creative
    cluster_run,                \* an update_ad_clusters call
    ad_clusters,                \* store: ad_text_clusters and ad_image_clusters
    browser_run                 \* the creative retriever generator, followed step by step

vars == <<pc, error, creative_retriever, since_reset, session_snapshots, current_batch_id, idx,
          snapshot_metadata_records, ad_creative_records, last_retrieve,
          browser_errors, fetch_batches, ad_creatives, ad_snapshot_metadata, images_bucket,
          videos_bucket, leases, slept, uploaders, uploaded, chunk_run, cluster_run,
          ad_clusters, browser_run>>

upload_vars == <<uploaders, uploaded>>

cluster_vars == <<cluster_run, ad_clusters>>

\* What the run loop of the worker leaves alone.
aside_vars == <<upload_vars, chunk_run, cluster_vars, browser_run>>

\* What the steps of the run loop that change no browser session leave alone.
apart_vars == <<aside_vars, session_snapshots>>

worker_vars == <<creative_retriever, since_reset, current_batch_id, idx, browser_errors>>
chunk_vars == <<snapshot_metadata_records, ad_creative_records, last_retrieve>>
table_vars == <<ad_creatives, ad_snapshot_metadata>>
bucket_vars == <<images_bucket, videos_bucket>>

archive_id_batch == ArchiveIdsOf(current_batch_id)

\* chunks(): idx is the last position of its chunk.
EndsChunk(i) == i % ChunkSize = 0 \/ i = Len(archive_id_batch)

NewLease(batch_id) ==
    [batch_id |-> batch_id, completed |-> 0, released |-> 0,
     chunks_committed |-> 0, alerts |-> 0]

ThisLease == leases[Len(leases)]

NoRetrieve ==
    [archive_id |-> 0, browser_error_first |-> FALSE, outcome |-> "none", creatives |-> 0,
     records |-> 0, calls |-> 0, sessions |-> <<>>]

Init ==
    /\ pc = "start"
    /\ error = NoError
    /\ creative_retriever = 0
    /\ since_reset = 0
    /\ session_snapshots = 0
    /\ current_batch_id = 0
    /\ idx = 0
    /\ snapshot_metadata_records = <<>>
    /\ ad_creative_records = <<>>
    /\ last_retrieve = NoRetrieve
    /\ browser_errors = 0
    /\ fetch_batches = [b \in BatchIds |-> "pool"]
    /\ ad_creatives = {}
    /\ ad_snapshot_metadata = [a \in ArchiveIds |-> [snapshot_fetch_status |-> UNKNOWN, lease |-> 0]]
    /\ images_bucket = EmptyBucket
    /\ videos_bucket = EmptyBucket
    /\ leases = <<>>
    /\ slept = 0
    /\ uploaders = [u \in Uploaders |-> IdleUploader]
    /\ uploaded = [image \in Images |-> 0]
    /\ chunk_run = IdleChunkRun
    /\ cluster_run = IdleClusterRun
    /\ ad_clusters = [text |-> EmptyClusterTable, image |-> EmptyClusterTable]
    /\ browser_run = IdleBrowserRun

---------------------------------------------------------------------------
(* The store's operations (db_functions) *)

\* get_archive_id_batch_to_fetch: the batches it may hand out.
LeasableBatches(batches) == {b \in BatchIds : batches[b] = "pool"}

get_archive_id_batch_to_fetch(batches, batch_id) == [batches EXCEPT ![batch_id] = "in_flight"]

\* Mutant of release_uncompleted_fetch_batch: the batch stays with its holder.
release_uncompleted_fetch_batch_keeps_in_flight(batches, batch_id) == batches

release_uncompleted_fetch_batch(batches, batch_id) == [batches EXCEPT ![batch_id] = "pool"]

mark_fetch_batch_completed(batches, batch_id) == [batches EXCEPT ![batch_id] = "completed"]

\* insert_ad_creative_records: an upsert on the unique constraint attributes.
RECURSIVE insert_ad_creative_records(_, _)
insert_ad_creative_records(table, records) ==
    IF records = <<>>
    THEN table
    ELSE LET record == Head(records)
             kept == {row \in table : UniqueConstraintAttrs(row) # UniqueConstraintAttrs(record)}
         IN  insert_ad_creative_records(kept \cup {record}, Tail(records))

\* update_ad_snapshot_metadata: one row per archive id; `lease` tells the pass
\* that wrote the row.
RECURSIVE update_ad_snapshot_metadata(_, _, _)
update_ad_snapshot_metadata(table, records, lease) ==
    IF records = <<>>
    THEN table
    ELSE update_ad_snapshot_metadata(
             [table EXCEPT ![Head(records).archive_id] =
                 [snapshot_fetch_status |-> Head(records).snapshot_fetch_status,
                  lease |-> lease]],
             Tail(records), lease)

---------------------------------------------------------------------------
(* retreive_and_store_ad_creatives *)

\* self.reset_creative_retriever() before the loop.
Start ==
    /\ pc = "start"
    /\ creative_retriever' = creative_retriever + 1
    /\ pc' = "lease"
    /\ UNCHANGED <<error, since_reset, current_batch_id, idx, browser_errors, chunk_vars,
                   fetch_batches, table_vars, bucket_vars, leases, slept, aside_vars>>

\* get_archive_id_batch_or_wait_until_available finds no batch and sleeps.
NoWork ==
    /\ pc = "lease"
    /\ LeasableBatches(fetch_batches) = {}
    /\ slept' = NO_AVAILABLE_WORK_SLEEP_TIME
    /\ error' = NoError
    /\ UNCHANGED <<pc, worker_vars, chunk_vars, fetch_batches, table_vars,
                   bucket_vars, leases, apart_vars>>

\* get_archive_id_batch_or_wait_until_available returns a batch.
LeaseBatch ==
    /\ pc = "lease"
    /\ Len(leases) < MaxLeases
    /\ \E batch_id \in LeasableBatches(fetch_batches) :
          /\ fetch_batches' = get_archive_id_batch_to_fetch(fetch_batches, batch_id)
          /\ current_batch_id' = batch_id
          /\ leases' = Append(leases, NewLease(batch_id))
    /\ pc' = "leased"
    /\ error' = NoError
    /\ slept' = 0
    /\ UNCHANGED <<creative_retriever, since_reset, idx, browser_errors,
                   chunk_vars,
                   table_vars, bucket_vars, apart_vars>>

\* The database call of the lease raises.
LeaseFails ==
    /\ pc = "lease"
    /\ error' = [kind |-> "DatabaseError", wait |-> <<>>]
    /\ pc' = "exited"
    /\ UNCHANGED <<worker_vars, chunk_vars, fetch_batches, table_vars, bucket_vars,
                   leases, slept, apart_vars>>

\* Lines 268-277: the worker enters the inner try and the loop over the chunks.
BeginBatch ==
    /\ pc = "leased"
    /\ idx' = 1
    /\ snapshot_metadata_records' = <<>>
    /\ ad_creative_records' = <<>>
    /\ last_retrieve' = NoRetrieve
    /\ pc' = IF Len(archive_id_batch) = 0 THEN "complete" ELSE "fetch"
    /\ UNCHANGED <<error, creative_retriever, since_reset, current_batch_id,
                   browser_errors, fetch_batches, table_vars, bucket_vars, leases,
                   slept, apart_vars>>

\* The body of the loop of process_archive_ids for one archive id whose
\* retrieve_ad call returned `retrieved`: the two record lists and the buckets
\* after it.
ProcessArchiveIdBody(archive_id, retrieved, metadata_records, creative_records, images, videos) ==
    LET metadata == metadata_records \o retrieved.records IN
    IF ~retrieved.returned \/ retrieved.creatives = <<>>
    THEN [snapshot_metadata_records |-> metadata,
          ad_creative_records |-> creative_records,
          images |-> images, videos |-> videos]
    ELSE LET new == process_fetched_ad_creative_data(
                        archive_id, retrieved.creatives, images, videos)
         IN  [snapshot_metadata_records |-> metadata,
              ad_creative_records |-> creative_records \o new.ad_creative_records,
              images |-> new.images, videos |-> new.videos]

\* process_archive_ids: one archive id of the chunk is retrieved and processed.
ProcessArchiveId ==
    /\ pc = "fetch"
    /\ \E first \in Outcomes(archive_id_batch[idx], browser_errors) :
       \E second \in IF first.kind \in BrowserErrors
                      THEN Outcomes(archive_id_batch[idx], browser_errors)
                      ELSE {first} :
          LET archive_id == archive_id_batch[idx]
              retrieved == retrieve_ad(archive_id, first, second)
              body == ProcessArchiveIdBody(archive_id, retrieved,
                          snapshot_metadata_records, ad_creative_records,
                          images_bucket, videos_bucket)
          IN  /\ creative_retriever' = creative_retriever + retrieved.resets
              /\ browser_errors' = browser_errors
                    + (IF first.kind \in BrowserErrors THEN 1 ELSE 0)
              /\ last_retrieve' =
                    [archive_id |-> archive_id,
                     browser_error_first |-> first.kind \in BrowserErrors,
                     outcome |-> IF retrieved.calls = 2 THEN second.kind ELSE first.kind,
                     creatives |-> Len(retrieved.creatives),
                     records |-> Len(retrieved.records),
                     calls |-> retrieved.calls,
                     sessions |->
                        IF retrieved.calls = 2
                        THEN <<creative_retriever, creative_retriever + retrieved.resets>>
                        ELSE <<creative_retriever>>]
              /\ IF retrieved.raised # NoError
                 THEN /\ error' = retrieved.raised
                      /\ pc' = "handler"
                      /\ UNCHANGED <<idx, snapshot_metadata_records, ad_creative_records,
                                     bucket_vars>>
                 ELSE /\ snapshot_metadata_records' = body.snapshot_metadata_records
                      /\ ad_creative_records' = body.ad_creative_records
                      /\ images_bucket' = body.images
                      /\ videos_bucket' = body.videos
                      /\ idx' = idx + 1
                      /\ pc' = IF EndsChunk(idx) THEN "persist" ELSE "fetch"
                      /\ UNCHANGED error
    /\ UNCHANGED <<since_reset, current_batch_id, fetch_batches, table_vars, leases,
                   slept, aside_vars>>

\* db_interface.insert_ad_creative_records inside the transaction of the chunk.
InsertAdCreativeRecords ==
    /\ pc = "persist"
    /\ pc' = "persist_metadata"
    /\ UNCHANGED <<error, worker_vars, chunk_vars, fetch_batches, table_vars,
                   bucket_vars, leases, slept, apart_vars>>

\* Mutant of AfterChunk: the loop is left after the first chunk.
AfterChunk_leaves_after_first_chunk(i) == "complete"

\* The for loop over chunks(): the position after the chunk ending before i.
AfterChunk(i) == IF i > Len(archive_id_batch) THEN "complete" ELSE "fetch"

\* db_interface.update_ad_snapshot_metadata, and the commit of the chunk's
\* transaction as the with block is left.
UpdateAdSnapshotMetadata ==
    /\ pc = "persist_metadata"
    /\ ad_creatives' = insert_ad_creative_records(ad_creatives, ad_creative_records)
    /\ ad_snapshot_metadata' =
          update_ad_snapshot_metadata(ad_snapshot_metadata, snapshot_metadata_records,
                                      Len(leases))
    /\ leases' = [leases EXCEPT ![Len(leases)].chunks_committed = @ + 1]
    /\ snapshot_metadata_records' = <<>>
    /\ ad_creative_records' = <<>>
    /\ last_retrieve' = NoRetrieve
    /\ pc' = AfterChunk(idx)
    /\ UNCHANGED <<error, worker_vars, fetch_batches, bucket_vars,
                   slept, apart_vars>>

\* Mutant of PersistFails: the rows insert_ad_creative_records wrote stay
\* when update_ad_snapshot_metadata raises.
PersistFails_keeps_inserted_rows ==
    /\ pc \in {"persist", "persist_metadata"}
    /\ ad_creatives' = IF pc = "persist_metadata"
                       THEN insert_ad_creative_records(ad_creatives, ad_creative_records)
                       ELSE ad_creatives
    /\ error' = [kind |-> "DatabaseError", wait |-> <<>>]
    /\ pc' = "handler"
    /\ UNCHANGED <<worker_vars, chunk_vars, fetch_batches, ad_snapshot_metadata,
                   bucket_vars, leases, slept, apart_vars>>

\* A database call of the chunk's transaction raises: nothing of it is committed.
PersistFails ==
    /\ pc \in {"persist", "persist_metadata"}
    /\ error' = [kind |-> "DatabaseError", wait |-> <<>>]
    /\ pc' = "handler"
    /\ UNCHANGED <<worker_vars, chunk_vars, fetch_batches, table_vars, bucket_vars,
                   leases, slept, apart_vars>>

\* Mutant of ReleaseBatch: the handler raises again without the release call.
ReleaseBatch_without_release ==
    /\ pc = "handler"
    /\ pc' = IF error.kind \in RateLimitErrors THEN "alert" ELSE "exited"
    /\ UNCHANGED <<error, worker_vars, chunk_vars, fetch_batches, table_vars,
                   bucket_vars, leases, slept, apart_vars>>

\* Mutant of ReleaseBatch: the handler releases the batch only for an error
\* that leaves the loop, not for a rate-limit signal.
ReleaseBatch_unless_rate_limited ==
    /\ pc = "handler"
    /\ fetch_batches' = IF error.kind \in RateLimitErrors
                        THEN fetch_batches
                        ELSE release_uncompleted_fetch_batch(fetch_batches, current_batch_id)
    /\ leases' = [leases EXCEPT ![Len(leases)].released = @ + 1]
    /\ pc' = IF error.kind \in RateLimitErrors THEN "alert" ELSE "exited"
    /\ UNCHANGED <<error, worker_vars, chunk_vars, table_vars, bucket_vars, slept, apart_vars>>

\* The inner except BaseException: release the batch and raise again; the
\* outer except catches the rate-limit errors, anything else leaves the loop.
ReleaseBatch ==
    /\ pc = "handler"
    /\ fetch_batches' = release_uncompleted_fetch_batch(fetch_batches, current_batch_id)
    /\ leases' = [leases EXCEPT ![Len(leases)].released = @ + 1]
    /\ pc' = IF error.kind \in RateLimitErrors THEN "alert" ELSE "exited"
    /\ UNCHANGED <<error, worker_vars, chunk_vars, table_vars, bucket_vars, slept, apart_vars>>

\* The release call itself raises: its error replaces the one in flight.
ReleaseFails ==
    /\ pc = "handler"
    /\ error' = [kind |-> "DatabaseError", wait |-> <<>>]
    /\ pc' = "exited"
    /\ UNCHANGED <<worker_vars, chunk_vars, fetch_batches, table_vars, bucket_vars,
                   leases, slept, apart_vars>>

\* Lines 293-305: count the batch, mark it completed, recycle the browser
\* when the threshold is reached.
MarkCompleted ==
    /\ pc = "complete"
    /\ fetch_batches' = mark_fetch_batch_completed(fetch_batches, current_batch_id)
    /\ leases' = [leases EXCEPT ![Len(leases)].completed = @ + 1]
    /\ LET processed == since_reset + Len(archive_id_batch) IN
       IF processed >= RESET_BROWSER_AFTER_PROCESSING_N_SNAPSHOTS
       THEN /\ creative_retriever' = creative_retriever + 1
            /\ since_reset' = 0
       ELSE /\ since_reset' = processed
            /\ UNCHANGED creative_retriever
    /\ pc' = "lease"
    /\ UNCHANGED <<error, current_batch_id, idx, browser_errors, chunk_vars, table_vars,
                   bucket_vars, slept, aside_vars>>

\* mark_fetch_batch_completed raises: no handler of the loop catches it.
MarkCompletedFails ==
    /\ pc = "complete"
    /\ error' = [kind |-> "DatabaseError", wait |-> <<>>]
    /\ pc' = "exited"
    /\ UNCHANGED <<worker_vars, chunk_vars, fetch_batches, table_vars, bucket_vars,
                   leases, slept, apart_vars>>

\* The outer except: send_slack_message.
SendAlert ==
    /\ pc = "alert"
    /\ leases' = [leases EXCEPT ![Len(leases)].alerts = @ + 1]
    /\ pc' = "sleep"
    /\ UNCHANGED <<error, worker_vars, chunk_vars, fetch_batches, table_vars,
                   bucket_vars, slept, apart_vars>>

\* Mutant of suggested_sleep_time: the attribute of the error is not read.
suggested_sleep_time_ignores_error(err) == TOO_MANY_REQUESTS_SLEEP_TIME

\* getattr(error, 'wait_before_next_batch_seconds', TOO_MANY_REQUESTS_SLEEP_TIME)
suggested_sleep_time(err) ==
    IF err.wait = <<>> THEN TOO_MANY_REQUESTS_SLEEP_TIME ELSE err.wait[1]

\* time.sleep(suggested_sleep_time), then the next iteration of the loop.
Sleep ==
    /\ pc = "sleep"
    /\ slept' = suggested_sleep_time(error)
    /\ pc' = "lease"
    /\ UNCHANGED <<error, worker_vars, chunk_vars, fetch_batches, table_vars,
                   bucket_vars, leases, apart_vars>>

\* The positions inside the inner try block.
InInnerTry == pc \in {"fetch", "persist", "persist_metadata"}

\* KeyboardInterrupt inside the inner try: the except BaseException gets it.
InterruptInChunk ==
    /\ InInnerTry
    /\ error' = [kind |-> "KeyboardInterrupt", wait |-> <<>>]
    /\ pc' = "handler"
    /\ UNCHANGED <<worker_vars, chunk_vars, fetch_batches, table_vars, bucket_vars,
                   leases, slept, apart_vars>>

\* KeyboardInterrupt anywhere else: it leaves the loop, and main raises it again.
InterruptOutside ==
    /\ pc \notin {"exited", "fetch", "persist", "persist_metadata"}
    /\ error' = [kind |-> "KeyboardInterrupt", wait |-> <<>>]
    /\ pc' = "exited"
    /\ UNCHANGED <<worker_vars, chunk_vars, fetch_batches, table_vars, bucket_vars,
                   leases, slept, apart_vars>>

Next ==
    \/ Start /\ UNCHANGED session_snapshots
    \/ NoWork
    \/ LeaseBatch
    \/ LeaseFails
    \/ BeginBatch
    \/ ProcessArchiveId /\ UNCHANGED session_snapshots
    \/ InsertAdCreativeRecords
    \/ UpdateAdSnapshotMetadata
    \/ PersistFails
    \/ ReleaseBatch
    \/ ReleaseFails
    \/ MarkCompleted /\ UNCHANGED session_snapshots
    \/ MarkCompletedFails
    \/ SendAlert
    \/ Sleep
    \/ InterruptInChunk
    \/ InterruptOutside

Spec == Init /\ [][Next]_vars

(* The worker with the snapshots of every browser session counted *)

\* The browser session in use is replaced: reset_creative_retriever has run.
SessionReplaced == creative_retriever' # creative_retriever

\* retrieve_ad (lines 343-355) calls the session in use for the archive id; after
\* a browser error the session it acquired is the one in use, called once.
CountSnapshot ==
    session_snapshots' = IF SessionReplaced THEN 1 ELSE session_snapshots + 1

\* reset_creative_retriever (lines 255-257, called at 262 and 304) starts a
\* session that was called for nothing yet.
CountReset ==
    session_snapshots' = IF SessionReplaced THEN 0 ELSE session_snapshots

NextSessions ==
    \/ Start /\ CountReset
    \/ NoWork
    \/ LeaseBatch
    \/ LeaseFails
    \/ BeginBatch
    \/ ProcessArchiveId /\ CountSnapshot
    \/ InsertAdCreativeRecords
    \/ UpdateAdSnapshotMetadata
    \/ PersistFails
    \/ ReleaseBatch
    \/ ReleaseFails
    \/ MarkCompleted /\ CountReset
    \/ MarkCompletedFails
    \/ SendAlert
    \/ Sleep
    \/ InterruptInChunk
    \/ InterruptOutside

SpecSessions == Init /\ [][NextSessions]_vars

---------------------------------------------------------------------------
(* upload_blob, statement by statement, for callers that interleave.  A caller
   uploads the bytes of an image to the path its dhash gives, as
   process_fetched_ad_creative_data does. *)

UploadPath(image) == make_image_hash_file_path(get_image_dhash(image))

\* Everything but the images bucket and the callers.
pipeline_vars == <<pc, error, creative_retriever, since_reset, session_snapshots,
                   current_batch_id, idx,
                   snapshot_metadata_records, ad_creative_records, last_retrieve,
                   browser_errors, fetch_batches, ad_creatives, ad_snapshot_metadata,
                   videos_bucket, leases, slept, chunk_run, cluster_vars, browser_run>>

\* upload_blob(bucket_client, blob_path, blob_data) is called.
CallUploadBlob(u) ==
    /\ uploaders[u].pc = "idle"
    /\ uploaders[u].calls < MaxCalls
    /\ \E image \in Images :
          uploaders' = [uploaders EXCEPT ![u] =
              [pc |-> "exists", image |-> image, attempt |-> 1,
               calls |-> uploaders[u].calls + 1, returned |-> None]]
    /\ UNCHANGED <<images_bucket, uploaded, pipeline_vars>>

\* if blob.exists(): the upload is skipped and blob.id returned.
BlobExists(u) ==
    /\ uploaders[u].pc = "exists"
    /\ LET blob_path == UploadPath(uploaders[u].image) IN
       uploaders' = [uploaders EXCEPT ![u] =
           IF blob_path \in DOMAIN images_bucket
           THEN [@ EXCEPT !.pc = "idle", !.returned = BlobId(blob_path)]
           ELSE [@ EXCEPT !.pc = "upload"]]
    /\ UNCHANGED <<images_bucket, uploaded, pipeline_vars>>

\* blob.upload_from_string(blob_data), then return blob.id.
UploadFromString(u) ==
    /\ uploaders[u].pc = "upload"
    /\ LET image == uploaders[u].image
           blob_path == UploadPath(image)
       IN  /\ images_bucket' =
                 [p \in DOMAIN images_bucket \cup {blob_path} |->
                     IF p = blob_path THEN image ELSE images_bucket[p]]
           /\ uploaded' = [uploaded EXCEPT ![image] = @ + 1]
           /\ uploaders' = [uploaders EXCEPT ![u] =
                 [@ EXCEPT !.pc = "idle", !.returned = BlobId(blob_path)]]
    /\ UNCHANGED pipeline_vars

\* Mutant of AttemptFails: the attempt that makes the count reach the stop is
\* followed by one more.
AttemptFails_retries_at_stop(u) ==
    /\ uploaders[u].pc \in {"exists", "upload"}
    /\ uploaders' = [uploaders EXCEPT ![u] =
          IF @.attempt <= stop_after_attempt
          THEN [@ EXCEPT !.pc = "exists", !.attempt = @ + 1]
          ELSE [@ EXCEPT !.pc = "idle", !.returned = <<"RetryError">>]]
    /\ UNCHANGED <<images_bucket, uploaded, pipeline_vars>>

\* A request to the object store raises: tenacity runs the function again,
\* up to stop_after_attempt attempts, then raises RetryError.
AttemptFails(u) ==
    /\ uploaders[u].pc \in {"exists", "upload"}
    /\ uploaders' = [uploaders EXCEPT ![u] =
          IF @.attempt < stop_after_attempt
          THEN [@ EXCEPT !.pc = "exists", !.attempt = @ + 1]
          ELSE [@ EXCEPT !.pc = "idle", !.returned = <<"RetryError">>]]
    /\ UNCHANGED <<images_bucket, uploaded, pipeline_vars>>

NextUpload ==
    \E u \in Uploaders :
        \/ CallUploadBlob(u)
        \/ BlobExists(u)
        \/ UploadFromString(u)
        \/ AttemptFails(u)

SpecUpload == Init /\ [][NextUpload]_vars

---------------------------------------------------------------------------
(* process_archive_ids on a chunk whose archive ids all return creatives,
   process_fetched_ad_creative_data followed creative by creative, with the
   counters of the pipeline instance *)

\* The chunks: one archive id, two archive ids, one archive id listed twice.
ChunkArchiveIdLists == {<<1>>, <<1, 2>>, <<1, 1>>}

\* The creatives a snapshot may hold: text and image; the same with a video
\* over the size limit; an image with a video of the limit's size; an image
\* that does not decode, with a video; text with a video whose response has
\* no content-length; a video only, with a content-length that is no integer;
\* text with a video whose request fails.
FetchedCreatives ==
    {Creative(1, 1, 0), Creative(1, 1, 2), Creative(0, 2, 1), Creative(1, 3, 1),
     Creative(1, 0, 3), Creative(0, 0, 4), Creative(1, 0, 5)}

FetchedCreativeLists == UNION {[1..n -> FetchedCreatives] : n \in 0..MaxCreatives}

\* Everything but chunk_run.
not_chunk_vars == <<pc, error, creative_retriever, since_reset, session_snapshots,
                    current_batch_id, idx,
                    snapshot_metadata_records, ad_creative_records, last_retrieve,
                    browser_errors, fetch_batches, ad_creatives, ad_snapshot_metadata,
                    images_bucket, videos_bucket, leases, slept, upload_vars, cluster_vars,
                    browser_run>>

\* process_archive_ids is called with a chunk.
StartChunk ==
    /\ chunk_run.pc = "idle"
    /\ \E archive_ids \in ChunkArchiveIdLists :
          chunk_run' = [chunk_run EXCEPT !.pc = "retrieve", !.archive_ids = archive_ids,
                                         !.k = 1]
    /\ UNCHANGED not_chunk_vars

\* The position after the archive id at k.
AfterArchiveId(run) == IF run.k = Len(run.archive_ids) THEN "done" ELSE "retrieve"

\* self.retrieve_ad(archive_id) returns creatives (none, for a snapshot
\* without creatives); its metadata record is appended.
RetrieveCreatives ==
    /\ chunk_run.pc = "retrieve"
    /\ \E creatives \in FetchedCreativeLists :
          LET archive_id == chunk_run.archive_ids[chunk_run.k]
              returned == Outcome("returned", creatives, <<>>)
              retrieved == retrieve_ad(archive_id, returned, returned)
              metadata == chunk_run.snapshot_metadata_records \o retrieved.records
          IN  chunk_run' =
                 IF creatives = <<>>
                 THEN [chunk_run EXCEPT !.snapshot_metadata_records = metadata,
                                        !.pc = AfterArchiveId(chunk_run),
                                        !.k = @ + 1]
                 ELSE [chunk_run EXCEPT
                          !.snapshot_metadata_records = metadata,
                          !.pc = "creatives",
                          !.pending = creatives,
                          !.st = [@ EXCEPT !.seen_unique_constraint_attrs = {},
                                           !.ad_creative_records = <<>>]]
    /\ UNCHANGED not_chunk_vars

\* One iteration of the loop of process_fetched_ad_creative_data.
ProcessNextCreative ==
    /\ chunk_run.pc = "creatives"
    /\ chunk_run.pending # <<>>
    /\ LET archive_id == chunk_run.archive_ids[chunk_run.k]
           creative == Head(chunk_run.pending)
           after == ProcessCreative(archive_id, creative, chunk_run.st)
       IN  chunk_run' = [chunk_run EXCEPT
              !.st = after,
              !.pending = Tail(@),
              !.log = Append(@, [k |-> chunk_run.k, archive_id |-> archive_id,
                                 creative |-> creative,
                                 emitted |-> Len(after.ad_creative_records)
                                              > Len(chunk_run.st.ad_creative_records)])]
    /\ UNCHANGED not_chunk_vars

\* process_fetched_ad_creative_data returns; its records extend those of the chunk.
ReturnCreativeRecords ==
    /\ chunk_run.pc = "creatives"
    /\ chunk_run.pending = <<>>
    /\ chunk_run' = [chunk_run EXCEPT
          !.ad_creative_records = @ \o chunk_run.st.ad_creative_records,
          !.pc = AfterArchiveId(chunk_run),
          !.k = @ + 1]
    /\ UNCHANGED not_chunk_vars

NextCreatives ==
    \/ StartChunk
    \/ RetrieveCreatives
    \/ ProcessNextCreative
    \/ ReturnCreativeRecords

SpecCreatives == Init /\ [][NextCreatives]_vars

---------------------------------------------------------------------------
(* update_ad_clusters, pass by pass and simhash by simhash *)

\* Everything but the run of the deduper and the cluster tables.
not_cluster_vars == <<pc, error, creative_retriever, since_reset, session_snapshots,
                      current_batch_id, idx,
                      snapshot_metadata_records, ad_creative_records, last_retrieve,
                      browser_errors, fetch_batches, ad_creatives, ad_snapshot_metadata,
                      images_bucket, videos_bucket, leases, slept, upload_vars, chunk_run,
                      browser_run>>

\* Lines 133-136: update_ad_clusters is called; the text pass starts with an
\* empty union-find.
StartTextClustering ==
    /\ cluster_run.pc = "idle"
    /\ cluster_run' = [cluster_run EXCEPT !.pc = "read", !.pass = "text",
                                          !.union_find = UnionFind]
    /\ UNCHANGED <<ad_clusters, not_cluster_vars>>

\* Lines 31-45: the text simhashes are read, the archive ids of every simhash
\* are connected and the SimhashIndex is built.
ReadTextSimhashesFrom(tables) ==
    /\ cluster_run.pc = "read"
    /\ cluster_run.pass = "text"
    /\ \E simhash_to_archive_ids \in tables :
          cluster_run' = [cluster_run EXCEPT
             !.pc = "query",
             !.simhash_to_archive_ids = simhash_to_archive_ids,
             !.index = SimhashIndex(
                          min_archive_id_and_sim_hash_tuples(simhash_to_archive_ids),
                          BIT_DIFFERENCE_THRESHOLD),
             !.union_find = connect_same_simhash(@, simhash_to_archive_ids),
             !.todo = DOMAIN simhash_to_archive_ids]
    /\ UNCHANGED <<ad_clusters, not_cluster_vars>>

ReadTextSimhashes == ReadTextSimhashesFrom(SimhashTables)

\* Lines 49-56, one iteration: the near duplicates of a simhash are connected.
QueryTextSimhash ==
    /\ cluster_run.pc = "query"
    /\ cluster_run.pass = "text"
    /\ \E curr_simhash_as_int \in cluster_run.todo :
          LET found == {int(x) : x \in get_near_dups(cluster_run.index, curr_simhash_as_int)}
          IN  cluster_run' = [cluster_run EXCEPT
                 !.union_find = union_pairs(@, combinations(found)),
                 !.todo = @ \ {curr_simhash_as_int},
                 !.last_queried = curr_simhash_as_int]
    /\ UNCHANGED <<ad_clusters, not_cluster_vars>>

\* Lines 137-151: the text clusters are numbered, their records are upserted
\* and committed.
WriteTextClusters ==
    /\ cluster_run.pc = "query"
    /\ cluster_run.pass = "text"
    /\ cluster_run.todo = {}
    /\ \E numbering \in ClusterNumberings(components(cluster_run.union_find)) :
          LET text_clusters == components(cluster_run.union_find)
              ad_cluster_records == ad_cluster_records_of(text_clusters, numbering)
          IN  /\ ad_clusters' = [ad_clusters EXCEPT
                    !.text = insert_or_update_ad_cluster_records(@, ad_cluster_records)]
              /\ cluster_run' = [cluster_run EXCEPT
                    !.pc = "written",
                    !.ad_cluster_records = ad_cluster_records,
                    !.records_of = "text",
                    !.committed = @ \cup {"text"}]
    /\ UNCHANGED not_cluster_vars

\* Lines 153-154: the image pass starts with an empty union-find; what the
\* text pass read and built is gone with its call.
StartImageClustering ==
    /\ cluster_run.pc = "written"
    /\ cluster_run' = [cluster_run EXCEPT
          !.pc = "read", !.pass = "image",
          !.simhash_to_archive_ids = <<>>, !.index = {}, !.records_of = "none",
          !.last_queried = None, !.union_find = UnionFind]
    /\ UNCHANGED <<ad_clusters, not_cluster_vars>>

\* Lines 73-86: the image simhashes are read, the archive ids of every
\* simhash are connected and the BKTree is filled.
ReadImageSimhashesFrom(tables) ==
    /\ cluster_run.pc = "read"
    /\ cluster_run.pass = "image"
    /\ \E simhash_to_archive_id_set \in tables :
          cluster_run' = [cluster_run EXCEPT
             !.pc = "query",
             !.simhash_to_archive_ids = simhash_to_archive_id_set,
             !.index = BKTree(simhash_to_archive_id_set),
             !.union_find = connect_same_simhash(@, simhash_to_archive_id_set),
             !.todo = DOMAIN simhash_to_archive_id_set]
    /\ UNCHANGED <<ad_clusters, not_cluster_vars>>

ReadImageSimhashes == ReadImageSimhashesFrom(SimhashTables)

\* Lines 91-102, one iteration: the archive ids found within the threshold
\* of a simhash are connected.
QueryImageSimhash ==
    /\ cluster_run.pc = "query"
    /\ cluster_run.pass = "image"
    /\ \E curr_simhash \in cluster_run.todo :
          LET found == find(cluster_run.index, ArchiveIDAndSimHash(-1, curr_simhash),
                            BIT_DIFFERENCE_THRESHOLD)
              found_archive_ids == {x[2].archive_id : x \in found}
          IN  cluster_run' = [cluster_run EXCEPT
                 !.union_find = union_pairs(@, combinations(found_archive_ids)),
                 !.todo = @ \ {curr_simhash},
                 !.last_queried = curr_simhash]
    /\ UNCHANGED <<ad_clusters, not_cluster_vars>>

\* Lines 156-168: the image clusters are numbered, their records are upserted
\* and committed.
WriteImageClusters ==
    /\ cluster_run.pc = "query"
    /\ cluster_run.pass = "image"
    /\ cluster_run.todo = {}
    /\ \E numbering \in ClusterNumberings(components(cluster_run.union_find)) :
          LET image_clusters == components(cluster_run.union_find)
              ad_cluster_records == ad_cluster_records_of(image_clusters, numbering)
          IN  /\ ad_clusters' = [ad_clusters EXCEPT
                    !.image = insert_or_update_ad_cluster_records(@, ad_cluster_records)]
              /\ cluster_run' = [cluster_run EXCEPT
                    !.pc = "return",
                    !.ad_cluster_records = ad_cluster_records,
                    !.records_of = "image",
                    !.committed = @ \cup {"image"}]
    /\ UNCHANGED not_cluster_vars

\* The read of the simhashes or a step of the union phase raises (a database
\* error, an interrupt): the exception leaves `with database_connection`,
\* which rolls back what is not committed; the locals of the run are gone.
ClusteringFails ==
    /\ cluster_run.pc \in {"read", "query"}
    /\ cluster_run' = [IdleClusterRun EXCEPT
          !.pc = "failed", !.pass = cluster_run.pass, !.failed_in = cluster_run.pc,
          !.committed = cluster_run.committed]
    /\ UNCHANGED <<ad_clusters, not_cluster_vars>>

\* Line 169: `return components` names nothing that is defined; NameError
\* leaves update_ad_clusters after both commits.
ReturnComponents ==
    /\ cluster_run.pc = "return"
    /\ cluster_run' = [cluster_run EXCEPT !.pc = "failed", !.failed_in = "return"]
    /\ UNCHANGED <<ad_clusters, not_cluster_vars>>

NextDedup ==
    \/ StartTextClustering
    \/ ReadTextSimhashes
    \/ QueryTextSimhash
    \/ WriteTextClusters
    \/ StartImageClustering
    \/ ReadImageSimhashes
    \/ QueryImageSimhash
    \/ WriteImageClusters
    \/ ClusteringFails
    \/ ReturnComponents

SpecDedup == Init /\ [][NextDedup]_vars

---------------------------------------------------------------------------
(* update_ad_clusters over a store of four archive ids, enough for a pass to
   find two components; two fingerprints 4 bits apart *)

NumberingArchiveIds == {1, 2, 3, 4}

NumberingFingerprints == {0, 120}

NumberingTables ==
    UNION {[S -> (SUBSET NumberingArchiveIds) \ {{}}] : S \in SUBSET NumberingFingerprints}

ReadTextSimhashesOfFour == ReadTextSimhashesFrom(NumberingTables)

ReadImageSimhashesOfFour == ReadImageSimhashesFrom(NumberingTables)

NextNumbering ==
    \/ StartTextClustering
    \/ ReadTextSimhashesOfFour
    \/ QueryTextSimhash
    \/ WriteTextClusters
    \/ StartImageClustering
    \/ ReadImageSimhashesOfFour
    \/ QueryImageSimhash
    \/ WriteImageClusters
    \/ ClusteringFails
    \/ ReturnComponents

SpecNumbering == Init /\ [][NextNumbering]_vars

---------------------------------------------------------------------------
(* make_creative_retriever_generator and reset_creative_retriever, step by
   step *)

\* Everything but the run of the generator.
not_browser_vars == <<pc, error, creative_retriever, since_reset, session_snapshots,
                      current_batch_id, idx,
                      snapshot_metadata_records, ad_creative_records, last_retrieve,
                      browser_errors, fetch_batches, ad_creatives, ad_snapshot_metadata,
                      images_bucket, videos_bucket, leases, slept, upload_vars, chunk_run,
                      cluster_vars>>

\* Mutant of ResetCreativeRetriever: the generator makes the next browser
\* context without leaving the with block it is suspended in.
ResetCreativeRetriever_without_exit ==
    /\ browser_run.pc = "worker"
    /\ browser_run.resets < MaxResets
    /\ browser_run' = [browser_run EXCEPT !.resets = @ + 1, !.pc = "enter"]
    /\ UNCHANGED not_browser_vars

\* Line 257: next(self.creative_retriever_generator).  The first call starts
\* the generator at the top of its loop; a later one resumes it after the
\* yield, inside the with block.
ResetCreativeRetriever ==
    /\ browser_run.pc = "worker"
    /\ browser_run.resets < MaxResets
    /\ browser_run' = [browser_run EXCEPT
          !.resets = @ + 1,
          !.pc = IF browser_run.browser = 0 THEN "enter" ELSE "exit"]
    /\ UNCHANGED not_browser_vars

\* The with block of line 250 is left: its browser context is closed.
ExitBrowser ==
    /\ browser_run.pc = "exit"
    /\ browser_run' = [browser_run EXCEPT
          !.open = @ \ {browser_run.browser}, !.browser = 0, !.pc = "enter"]
    /\ UNCHANGED not_browser_vars

\* Line 250: self.browser_context_factory.web_browser() opens a browser.
EnterBrowser ==
    /\ browser_run.pc = "enter"
    /\ browser_run' = [browser_run EXCEPT
          !.open = @ \cup {browser_run.resets}, !.browser = browser_run.resets,
          !.pc = "build"]
    /\ UNCHANGED not_browser_vars

\* web_browser() raises: no browser is opened and next() raises.
EnterBrowserFails ==
    /\ browser_run.pc = "enter"
    /\ browser_run' = [browser_run EXCEPT !.pc = "raised"]
    /\ UNCHANGED not_browser_vars

\* Lines 251-253 and 257: the retriever built on the browser is yielded and
\* assigned to self.creative_retriever.
BuildCreativeRetriever ==
    /\ browser_run.pc = "build"
    /\ browser_run' = [browser_run EXCEPT
          !.creative_retriever = browser_run.browser, !.used = 0, !.pc = "worker"]
    /\ UNCHANGED not_browser_vars

\* creative_retriever_factory.build raises: the with block is left, its
\* browser context is closed, and next() raises.
BuildCreativeRetrieverFails ==
    /\ browser_run.pc = "build"
    /\ browser_run' = [browser_run EXCEPT
          !.open = @ \ {browser_run.browser}, !.browser = 0, !.pc = "raised"]
    /\ UNCHANGED not_browser_vars

\* self.creative_retriever.retrieve_ad is called for a snapshot.
UseCreativeRetriever ==
    /\ browser_run.pc = "worker"
    /\ browser_run.creative_retriever # 0
    /\ browser_run.used < RESET_BROWSER_AFTER_PROCESSING_N_SNAPSHOTS
    /\ browser_run' = [browser_run EXCEPT !.used = @ + 1]
    /\ UNCHANGED not_browser_vars

NextBrowser ==
    \/ ResetCreativeRetriever
    \/ ExitBrowser
    \/ EnterBrowser
    \/ EnterBrowserFails
    \/ BuildCreativeRetriever
    \/ BuildCreativeRetrieverFails
    \/ UseCreativeRetriever

SpecBrowser == Init /\ [][NextBrowser]_vars

---------------------------------------------------------------------------
(* Notions the properties use *)

Range(seq) == {seq[i] : i \in 1..Len(seq)}

BatchArchiveIds(batch_id) == Range(ArchiveIdsOf(batch_id))

NumChunks(batch_id) == (Len(ArchiveIdsOf(batch_id)) + ChunkSize - 1) \div ChunkSize

\* The archive ids of the first n chunks of a batch.
ArchiveIdsOfChunks(batch_id, n) ==
    {ArchiveIdsOf(batch_id)[i] : i \in 1..Len(ArchiveIdsOf(batch_id)) \cap 1..(n * ChunkSize)}

\* The worker has left the batch it leased last: it asks for the next one or
\* has left the loop.
LeftLastBatch == pc \in {"lease", "exited"}

TerminalCalls(lease) == lease.completed + lease.released

\* The positions of the running chunk that process_archive_ids has been through.
ChunkFirst == IF pc = "fetch"
              THEN ((idx - 1) \div ChunkSize) * ChunkSize + 1
              ELSE ((idx - 2) \div ChunkSize) * ChunkSize + 1

ChunkDone == ChunkFirst..(idx - 1)

---------------------------------------------------------------------------
(* C1 *)

\* C1: for every batch the worker leased, once the worker has left the batch
\* (it leases again or has left the loop) exactly one of
\* mark_fetch_batch_completed / release_uncompleted_fetch_batch was called for
\* it, exactly once; and at no time were both called, or one called twice.
C1_TerminalStateSetExactlyOnce ==
    \A i \in 1..Len(leases) :
        /\ TerminalCalls(leases[i]) <= 1
        /\ (i < Len(leases) \/ LeftLastBatch) => TerminalCalls(leases[i]) = 1

---------------------------------------------------------------------------
(* C2 *)

\* C2: a batch is marked completed only after every chunk of it has been
\* committed: whenever a lease is completed, all its chunks were committed in
\* that lease and the metadata row of each of its archive ids is the one that
\* lease wrote; a batch the store holds as completed was completed so.
C2_CompletedOnlyAfterAllChunksCommitted ==
    /\ \A i \in 1..Len(leases) :
          leases[i].completed > 0 =>
             /\ leases[i].chunks_committed = NumChunks(leases[i].batch_id)
             /\ \A a \in BatchArchiveIds(leases[i].batch_id) :
                   ad_snapshot_metadata[a].lease = i
    /\ \A b \in BatchIds :
          fetch_batches[b] = "completed" =>
             \E i \in 1..Len(leases) :
                /\ leases[i].batch_id = b
                /\ leases[i].completed > 0
                /\ leases[i].chunks_committed = NumChunks(b)

\* C2 witness: the batch of three archive ids has been marked completed, all
\* of its chunks committed before.
C2_Witness ==
    /\ fetch_batches[1] = "completed"
    /\ \E i \in 1..Len(leases) :
          /\ leases[i].batch_id = 1
          /\ leases[i].completed = 1
          /\ leases[i].chunks_committed = NumChunks(1)

---------------------------------------------------------------------------
(* C3 *)

\* A step in which no new error is raised: neither a KeyboardInterrupt nor a
\* failure of the database call the step makes.
Undisturbed ==
    ~(InterruptInChunk \/ InterruptOutside \/ ReleaseFails \/ LeaseFails
        \/ MarkCompletedFails \/ PersistFails)

RateLimited == error.kind \in RateLimitErrors

\* The rate-limit error reaches the inner handler: the batch is released, not
\* completed, and the outer handler is entered.
C3_Release ==
    (pc = "handler" /\ RateLimited /\ Undisturbed) =>
        /\ pc' = "alert"
        /\ fetch_batches'[current_batch_id] = "pool"
        /\ leases'[Len(leases)].released = 1
        /\ leases'[Len(leases)].completed = 0

\* The outer handler publishes one alert, then sleeps the suggested time,
\* then goes round the loop to the lease.
C3_AlertSleepResume ==
    /\ (pc = "alert" /\ Undisturbed) =>
          /\ pc' = "sleep"
          /\ leases'[Len(leases)].alerts = leases[Len(leases)].alerts + 1
    /\ (pc = "sleep" /\ Undisturbed) =>
          /\ pc' = "lease"
          /\ slept' = IF error.wait = <<>> THEN 4 * 60 * 60 ELSE error.wait[1]

\* What holds of every state on the way.
C3_State ==
    /\ pc \in {"alert", "sleep"} =>
          /\ RateLimited
          /\ fetch_batches[current_batch_id] = "pool"
          /\ ThisLease.released = 1 /\ ThisLease.completed = 0
    /\ pc = "sleep" => ThisLease.alerts = 1
    /\ pc = "exited" => ~RateLimited
    /\ \A i \in 1..Len(leases) :
          leases[i].alerts > 0 => leases[i].completed = 0 /\ leases[i].released = 1

\* C3: when the extractor raises TooManyRequestsError or
\* EndBatchCrawlerException in a chunk, then (unless a KeyboardInterrupt or a
\* failing database call cuts the handling short) the batch is released and
\* never marked completed, an alert is published, the worker sleeps the
\* error's wait_before_next_batch_seconds (4 hours when it has none) and goes
\* on to lease a batch again: a rate-limit error never leaves the loop.
C3_RateLimitReleasesAlertsSleepsResumes ==
    /\ []C3_State
    /\ [][C3_Release /\ C3_AlertSleepResume]_vars

\* C3 witness: a batch was leased again after the rate-limit of the batch
\* before it was alerted and slept through.
C3_Witness ==
    /\ pc = "leased"
    /\ Len(leases) = 2
    /\ leases[1].alerts = 1 /\ leases[1].released = 1

---------------------------------------------------------------------------
(* C4 *)

\* The metadata rows a lease has committed are those of its committed chunks:
\* no row of a chunk that was not processed to its end.
NoPartialChunkCommitted ==
    \A a \in ArchiveIds :
        (Len(leases) > 0 /\ ad_snapshot_metadata[a].lease = Len(leases)) =>
            a \in ArchiveIdsOfChunks(ThisLease.batch_id, ThisLease.chunks_committed)

\* C4: when a KeyboardInterrupt ends the run while the batch leased last is in
\* flight (not yet marked completed), that batch has been released by the time
\* the process exits, and no row of a partially processed chunk is committed.
C4_InterruptReleasesBatch ==
    /\ NoPartialChunkCommitted
    /\ (pc = "exited" /\ error.kind = "KeyboardInterrupt" /\ Len(leases) > 0
          /\ ThisLease.completed = 0)
       => (ThisLease.released = 1 /\ fetch_batches[ThisLease.batch_id] = "pool")

---------------------------------------------------------------------------
(* C5 *)

\* The error of a chunk that is no rate-limit signal reaches the inner
\* handler: the batch is released, not completed, and the error leaves the loop.
C5_Release ==
    (pc = "handler" /\ ~RateLimited /\ Undisturbed) =>
        /\ pc' = "exited"
        /\ error' = error
        /\ fetch_batches'[current_batch_id] = "pool"
        /\ leases'[Len(leases)].released = 1
        /\ leases'[Len(leases)].completed = 0

\* A failing database call of the chunk's transaction reaches the inner
\* handler and commits nothing.
C5_DatabaseFailure ==
    PersistFails => (pc' = "handler" /\ ~RateLimited' /\ UNCHANGED table_vars)

\* C5: when processing or persisting a chunk fails with an error that is no
\* rate-limit signal, then (unless a KeyboardInterrupt or a failure of the
\* release call cuts the handler short) the batch is released, it is never
\* marked completed, and the error leaves the run loop: the worker takes no
\* further step, so it leases no other batch.
C5_ErrorReleasesAndReraises ==
    /\ [](\A i \in 1..Len(leases) : leases[i].released > 0 => leases[i].completed = 0)
    /\ [](pc = "handler" => ThisLease.completed = 0 /\ error # NoError)
    /\ [][C5_Release /\ C5_DatabaseFailure /\ pc # "exited"]_vars

\* C5 witness: a database failure in the second chunk of batch 1 has left the
\* loop, the batch released with its first chunk committed.
C5_Witness ==
    /\ pc = "exited"
    /\ error.kind = "DatabaseError"
    /\ Len(leases) > 0
    /\ ThisLease.batch_id = 1
    /\ ThisLease.released = 1 /\ ThisLease.chunks_committed = 1
    /\ fetch_batches[1] = "pool"

---------------------------------------------------------------------------
(* C6 *)

\* C6: for every archive id of a batch that has been marked completed, the
\* store holds the metadata row that pass wrote for it, and the row's fetch
\* status differs from UNKNOWN.
C6_CompletedBatchHasTerminalStatuses ==
    \A i \in 1..Len(leases) :
        leases[i].completed > 0 =>
            \A a \in BatchArchiveIds(leases[i].batch_id) :
                /\ ad_snapshot_metadata[a].lease = i
                /\ ad_snapshot_metadata[a].snapshot_fetch_status # UNKNOWN

---------------------------------------------------------------------------
(* C7 *)

\* C7 as claimed: whatever the extractor answered, the retrieve_ad call
\* emitted exactly one AdSnapshotMetadataRecord.
C7_OneRecordForEveryOutcome ==
    last_retrieve.calls > 0 => last_retrieve.records = 1

\* C7 as amended: a retrieve_ad call emits exactly one record when it returns
\* (creatives, no creatives, a snapshot error or a request error, also after a
\* browser error that the retry recovered from) and none when it raises (a
\* rate-limit signal, or a browser error on the retry); the records of the
\* running chunk are those of the archive ids processed so far, one each, in
\* order.
C7_OneRecordPerReturnedRetrieve ==
    /\ last_retrieve.calls > 0 =>
          last_retrieve.records =
             IF last_retrieve.outcome \in RateLimitErrors \cup BrowserErrors THEN 0 ELSE 1
    /\ InInnerTry =>
          /\ Len(snapshot_metadata_records) = Cardinality(ChunkDone)
          /\ \A k \in 1..Len(snapshot_metadata_records) :
                snapshot_metadata_records[k].archive_id = archive_id_batch[ChunkFirst + k - 1]

\* C7 witness: the extractor raised a request error on the retry after a
\* browser error, and the archive id got its record.
C7_Witness ==
    /\ last_retrieve.outcome = "RequestException"
    /\ last_retrieve.calls = 2
    /\ last_retrieve.records = 1
    /\ InInnerTry
    /\ snapshot_metadata_records # <<>>
    /\ snapshot_metadata_records[Len(snapshot_metadata_records)].archive_id
          = last_retrieve.archive_id

---------------------------------------------------------------------------
(* C8 *)

\* The creative rows emitted so far: committed, or of the running chunk.
EmittedRows == ad_creatives \cup Range(ad_creative_records)

\* C8: for every emitted creative row with an image, the object at the row's
\* image_bucket_path has the SHA-256 the row gives as image_sha256_hash.
C8_ImageObjectMatchesRowHash ==
    \A row \in EmittedRows :
        row.image_sim_hash # None =>
            /\ row.image_bucket_path \in DOMAIN images_bucket
            /\ Sha256("image", images_bucket[row.image_bucket_path]) = row.image_sha256_hash

---------------------------------------------------------------------------
(* C9 *)

\* The calls that ended have returned the blob id, unless the attempts ran out.
UploadReturnsBlobId ==
    \A u \in Uploaders :
        uploaders[u].pc = "idle" /\ uploaders[u].calls > 0 =>
            uploaders[u].returned \in {BlobId(UploadPath(uploaders[u].image)), <<"RetryError">>}

\* An object that exists is left as it is.
ExistingObjectUnchanged ==
    \A p \in DOMAIN images_bucket :
        p \in DOMAIN images_bucket' /\ images_bucket'[p] = images_bucket[p]

\* C9: upload_blob is upload-if-absent: however many calls are made with the
\* same path and bytes, by one caller or by callers that interleave, the
\* upload is performed once, every call returns the blob id, and an object
\* that exists is never uploaded again nor changed.
C9_UploadIfAbsentUploadsOnce ==
    /\ [](UploadReturnsBlobId /\ \A image \in Images : uploaded[image] <= 1)
    /\ [][ExistingObjectUnchanged]_vars

---------------------------------------------------------------------------
(* C10 *)

\* C10: the creative rows sent to the store in one chunk hold no two rows with
\* the same (archive_id, text_sha256, image_sha256, video_sha256).
C10_NoDuplicateTupleInChunk ==
    pc \in {"persist", "persist_metadata"} =>
        \A i, j \in 1..Len(ad_creative_records) :
            i # j => UniqueConstraintAttrs(ad_creative_records[i])
                        # UniqueConstraintAttrs(ad_creative_records[j])


---------------------------------------------------------------------------
(* Notions the properties of process_fetched_ad_creative_data use *)

\* The image of the creative, if it has one, decodes.
ImageOk(creative) == creative.image = 0 \/ Decodes(creative.image)

\* The request of the video succeeds and its response passes the size guard.
VideoAccepted(video_url) ==
    /\ video_url # 0
    /\ ~VideoResponse(video_url).raises
    /\ VideoResponse(video_url).has_content_length
    /\ VideoResponse(video_url).is_int
    /\ VideoResponse(video_url).content_length <= max_video_download_size

\* The hashes a row of the creative must carry.
ExpectedTextSha256(creative) ==
    IF creative.body # 0 THEN Sha256("text", creative.body) ELSE None

ExpectedImageSha256(creative) ==
    IF creative.image # 0 THEN Sha256("image", creative.image) ELSE None

ExpectedVideoSha256(creative) ==
    IF VideoAccepted(creative.video_url)
    THEN Sha256("video", VideoResponse(creative.video_url).content)
    ELSE None

ExpectedTuple(archive_id, creative) ==
    <<archive_id, ExpectedTextSha256(creative), ExpectedImageSha256(creative),
      ExpectedVideoSha256(creative)>>

TupleOfRow(row) ==
    <<row.archive_id, row.text_sha256_hash, row.image_sha256_hash, row.video_sha256_hash>>

\* The rows of the chunk so far.
ChunkRows ==
    IF chunk_run.pc = "creatives"
    THEN chunk_run.ad_creative_records \o chunk_run.st.ad_creative_records
    ELSE chunk_run.ad_creative_records

IsEmitted(entry) == entry.emitted

EmittedLog == SelectSeq(chunk_run.log, IsEmitted)

\* An earlier creative of the same fetch of the archive id had the same tuple.
DuplicateInFetch(n) ==
    \E m \in 1..(n - 1) :
        /\ chunk_run.log[m].k = chunk_run.log[n].k
        /\ ImageOk(chunk_run.log[m].creative)
        /\ ExpectedTuple(chunk_run.log[m].archive_id, chunk_run.log[m].creative)
              = ExpectedTuple(chunk_run.log[n].archive_id, chunk_run.log[n].creative)

---------------------------------------------------------------------------
(* C11 *)

---------------------------------------------------------------------------
(* C12 *)

\* C12: no browser session is called for more than
\* RESET_BROWSER_AFTER_PROCESSING_N_SNAPSHOTS archive ids: once that many were
\* processed since the last reset, the next one meets a new session.
C12_NoSessionExceedsThreshold ==
    session_snapshots <= RESET_BROWSER_AFTER_PROCESSING_N_SNAPSHOTS

---------------------------------------------------------------------------
(* C13 *)

---------------------------------------------------------------------------
(* Notions the properties of one iteration of the creatives loop use *)

\* The step is an iteration of the loop of process_fetched_ad_creative_data.
IsCreativeStep ==
    /\ chunk_run.pc = "creatives"
    /\ chunk_run.pending # <<>>
    /\ chunk_run' # chunk_run

\* The creative of the iteration and its archive id.
StepCreative == Head(chunk_run.pending)

StepArchiveId == chunk_run.archive_ids[chunk_run.k]

\* The rows the iteration appends.
StepRows ==
    SubSeq(chunk_run'.st.ad_creative_records,
           Len(chunk_run.st.ad_creative_records) + 1,
           Len(chunk_run'.st.ad_creative_records))

\* The creative has the tuple of an earlier row of the same fetch.
StepIsDuplicate ==
    ExpectedTuple(StepArchiveId, StepCreative)
        \in {TupleOfRow(chunk_run.st.ad_creative_records[i]) :
                i \in 1..Len(chunk_run.st.ad_creative_records)}

\* The response to the GET of the video carries a content-length that is an
\* integer greater than the maximum.
Oversize(video_url) ==
    /\ video_url # 0
    /\ ~VideoResponse(video_url).raises
    /\ VideoResponse(video_url).has_content_length
    /\ VideoResponse(video_url).is_int
    /\ VideoResponse(video_url).content_length > max_video_download_size

\* The image fields of the row are those of the creative's image.
ImageFieldsPopulated(row, creative) ==
    /\ row.image_sha256_hash = Sha256("image", creative.image)
    /\ row.image_sim_hash = get_image_dhash(creative.image)
    /\ row.image_bucket_path = make_image_hash_file_path(get_image_dhash(creative.image))

---------------------------------------------------------------------------
(* C14 *)

\* C14: the iteration for a creative with an image and a video whose
\* content-length exceeds the maximum appends one row, with
\* video_downloaded_url, video_sha256_hash and video_bucket_path null and the
\* image fields populated, and adds one to num_video_download_failure.
C14_OversizeVideoRowHasNullVideoFields ==
    [][(/\ IsCreativeStep
        /\ StepCreative.image # 0
        /\ Decodes(StepCreative.image)
        /\ Oversize(StepCreative.video_url))
       => /\ Len(StepRows) = 1
          /\ StepRows[1].video_downloaded_url = None
          /\ StepRows[1].video_sha256_hash = None
          /\ StepRows[1].video_bucket_path = None
          /\ ImageFieldsPopulated(StepRows[1], StepCreative)
          /\ chunk_run'.st.num_video_download_failure
                = chunk_run.st.num_video_download_failure + 1]_vars

---------------------------------------------------------------------------
(* C15 *)

\* The response carries a content-length header whose value is an integer
\* not greater than the maximum.
HeaderAccepts(video_url) ==
    /\ VideoResponse(video_url).has_content_length
    /\ VideoResponse(video_url).is_int
    /\ VideoResponse(video_url).content_length <= max_video_download_size

\* The iteration downloads the video and the bucket holds its bytes at the
\* path of their sha256.
StepUploadsVideo ==
    LET content == VideoResponse(StepCreative.video_url).content
        path == make_video_sha256_hash_file_path(Sha256("video", content))
    IN  /\ chunk_run'.st.num_video_download_success
              = chunk_run.st.num_video_download_success + 1
        /\ path \in DOMAIN chunk_run'.st.videos
        /\ chunk_run'.st.videos[path] = content

\* The iteration stores no video bytes.
StepStoresNoVideo ==
    /\ chunk_run'.st.num_video_download_success = chunk_run.st.num_video_download_success
    /\ chunk_run'.st.videos = chunk_run.st.videos

\* The rest of the creative is processed: its image, if any, is in the
\* bucket, and it has a row, with its text and image hashes and no video
\* hash, unless an earlier creative of the fetch had the same tuple.
StepSkipsVideoOnly ==
    /\ StepCreative.image # 0 =>
          make_image_hash_file_path(get_image_dhash(StepCreative.image))
              \in DOMAIN chunk_run'.st.images
    /\ Len(StepRows) = IF StepIsDuplicate THEN 0 ELSE 1
    /\ \A i \in 1..Len(StepRows) :
          /\ StepRows[i].video_sha256_hash = None
          /\ StepRows[i].video_bucket_path = None
          /\ StepRows[i].text_sha256_hash = ExpectedTextSha256(StepCreative)
          /\ StepRows[i].image_sha256_hash = ExpectedImageSha256(StepCreative)

\* C15 as stated: the video of a creative is downloaded and uploaded if and
\* only if the response carries a content-length that is an integer not
\* greater than the maximum; when it is refused no video bytes are stored and
\* the creative's row is emitted.
C15_VideoStoredIffHeaderAccepts ==
    [][(IsCreativeStep /\ StepCreative.video_url # 0)
       => /\ StepUploadsVideo <=> HeaderAccepts(StepCreative.video_url)
          /\ ~HeaderAccepts(StepCreative.video_url)
                => (StepStoresNoVideo /\ Len(StepRows) = 1)]_vars

\* C15, amended: for a creative whose image, if it has one, decodes, the video
\* is downloaded and uploaded if and only if the request succeeds and the
\* response carries a content-length that is an integer not greater than the
\* maximum (the maximum itself is accepted, one more is refused); otherwise no
\* video bytes are stored and the rest of the creative is processed, its row
\* being emitted unless it repeats the tuple of an earlier row of the fetch.
C15_VideoStoredIffRequestAndHeaderAccept ==
    [][(IsCreativeStep /\ StepCreative.video_url # 0 /\ ImageOk(StepCreative))
       => /\ StepUploadsVideo <=> VideoAccepted(StepCreative.video_url)
          /\ ~VideoAccepted(StepCreative.video_url)
                => (StepStoresNoVideo /\ StepSkipsVideoOnly)]_vars

\* C15 witness: of the two creatives of a fetch, the video with a
\* content-length over the maximum was refused and the video of the maximum's
\* size is stored; both creatives have their rows.
C15_Witness ==
    /\ Len(chunk_run.log) = 2
    /\ chunk_run.log[1].creative = Creative(1, 1, 2)
    /\ chunk_run.log[2].creative = Creative(0, 2, 1)
    /\ VideoResponse(1).content_length = max_video_download_size
    /\ VideoResponse(2).content_length = max_video_download_size + 1
    /\ chunk_run.log[1].emitted /\ chunk_run.log[2].emitted
    /\ DOMAIN chunk_run.st.videos
          = {make_video_sha256_hash_file_path(Sha256("video", VideoResponse(1).content))}
    /\ chunk_run.st.num_video_download_success = 1
    /\ chunk_run.st.num_video_download_failure = 1

---------------------------------------------------------------------------
(* C16 *)

\* The metadata record retrieve_ad built for the fetch at position k of the chunk.
MetadataRecordOfFetch(k) == chunk_run.snapshot_metadata_records[k]

\* An earlier creative of the same fetch had an image that did not decode.
AfterDecodeFailure(n) ==
    \E m \in 1..(n - 1) :
        /\ chunk_run.log[m].k = chunk_run.log[n].k
        /\ ~ImageOk(chunk_run.log[m].creative)

\* The creatives that follow a decode failure in their fetch are processed as
\* any other, and every fetch that reached the loop has its metadata record.
C16_State ==
    /\ \A n \in 1..Len(chunk_run.log) :
          /\ AfterDecodeFailure(n) =>
                (chunk_run.log[n].emitted <=>
                    (ImageOk(chunk_run.log[n].creative) /\ ~DuplicateInFetch(n)))
          /\ chunk_run.log[n].k <= Len(chunk_run.snapshot_metadata_records)
          /\ MetadataRecordOfFetch(chunk_run.log[n].k).archive_id
                = chunk_run.log[n].archive_id
    /\ chunk_run.pc = "done" =>
          Len(chunk_run.snapshot_metadata_records) = Len(chunk_run.archive_ids)

\* The iteration for a creative whose image does not decode counts one image
\* failure and does nothing else: no row, nothing uploaded, nothing else
\* counted or seen, and the loop goes on with the creatives that remain.
C16_Step ==
    (IsCreativeStep /\ ~ImageOk(StepCreative))
    => /\ chunk_run'.st = [chunk_run.st EXCEPT !.num_image_download_failure = @ + 1]
       /\ StepRows = <<>>
       /\ chunk_run'.st.images = chunk_run.st.images
       /\ chunk_run'.st.videos = chunk_run.st.videos
       /\ chunk_run'.pc = "creatives"
       /\ chunk_run'.pending = Tail(chunk_run.pending)
       /\ chunk_run'.ad_creative_records = chunk_run.ad_creative_records
       /\ chunk_run'.snapshot_metadata_records = chunk_run.snapshot_metadata_records

\* C16: when the image of a creative fails to decode, the image failure
\* counter grows by one, no row is emitted for the creative and neither its
\* image nor its video is uploaded; the creatives that remain of the archive
\* id are processed and the archive id has its metadata record.
C16_DecodeFailureDropsThatCreativeOnly == []C16_State /\ [][C16_Step]_vars

\* C16 witness: the first creative of a fetch had an image that did not decode
\* (and a video that would have been accepted); the second one has its row.
C16_Witness ==
    /\ Len(chunk_run.log) = 2
    /\ chunk_run.log[1].creative = Creative(1, 3, 1)
    /\ ~Decodes(3) /\ VideoAccepted(1)
    /\ ~chunk_run.log[1].emitted
    /\ chunk_run.log[2].k = chunk_run.log[1].k
    /\ chunk_run.log[2].creative = Creative(1, 1, 0)
    /\ chunk_run.log[2].emitted
    /\ chunk_run.st.num_image_download_failure = 1
    /\ chunk_run.st.videos = EmptyBucket
    /\ Len(chunk_run.st.ad_creative_records) = 1
    /\ MetadataRecordOfFetch(chunk_run.log[1].k).archive_id = chunk_run.log[1].archive_id

---------------------------------------------------------------------------
(* Notions the properties of update_ad_clusters use *)

\* The archive ids that occur in a fingerprint table, and the fingerprints of one.
TableArchiveIds(table) == UNION {table[sim_hash] : sim_hash \in DOMAIN table}

SimhashesOf(table, archive_id) == {sim_hash \in DOMAIN table : archive_id \in table[sim_hash]}

\* Two archive ids have fingerprints within the threshold of each other
\* (the same fingerprint included).
Near(table, a, b) ==
    \E f \in SimhashesOf(table, a), g \in SimhashesOf(table, b) :
        get_num_bits_different(f, g) <= BIT_DIFFERENCE_THRESHOLD

\* The archive ids a chain of such pairs leads to from those reached.
RECURSIVE ChainedFrom(_, _)
ChainedFrom(table, reached) ==
    LET next == reached \cup {b \in TableArchiveIds(table) :
                                 \E a \in reached : Near(table, a, b)}
    IN  IF next = reached THEN reached ELSE ChainedFrom(table, next)

Chained(table, a, b) == b \in ChainedFrom(table, {a})

\* A pass has written its records: the table it read and the records it
\* wrote are those of cluster_run.
ClustersWritten == cluster_run.records_of # "none"

WrittenTable == cluster_run.simhash_to_archive_ids

\* The cluster ids the written records give an archive id.
ClusterIdsOf(archive_id) ==
    {r.ad_cluster_id : r \in {r \in cluster_run.ad_cluster_records :
                                  r.archive_id = archive_id}}

---------------------------------------------------------------------------
(* C17 *)

\* C17: in the records either pass writes, two archive ids have the same
\* cluster id only if a chain of archive ids of the table leads from one to
\* the other in which the fingerprints of every adjacent pair are at most
\* BIT_DIFFERENCE_THRESHOLD bits apart.
C17_SameClusterOnlyWithChain ==
    ClustersWritten =>
        \A r, s \in cluster_run.ad_cluster_records :
            /\ r.archive_id \in TableArchiveIds(WrittenTable)
            /\ r.ad_cluster_id = s.ad_cluster_id
                  => Chained(WrittenTable, r.archive_id, s.archive_id)

\* C17 witness: the text pass put three archive ids in one cluster whose
\* fingerprints are a chain of steps of 3 bits, the ends 6 bits apart.
C17_Witness ==
    /\ cluster_run.records_of = "text"
    /\ WrittenTable = (0 :> {1} @@ 7 :> {2} @@ 63 :> {3})
    /\ get_num_bits_different(0, 63) > BIT_DIFFERENCE_THRESHOLD
    /\ cluster_run.ad_cluster_records
          = {AdClusterRecord(1, 0), AdClusterRecord(2, 0), AdClusterRecord(3, 0)}
    /\ ad_clusters.text = (1 :> 0 @@ 2 :> 0 @@ 3 :> 0)

---------------------------------------------------------------------------
(* C18 *)

\* C18: in the records either pass writes, two archive ids that share a
\* fingerprint or have fingerprints at most BIT_DIFFERENCE_THRESHOLD bits
\* apart, or that a chain of such pairs connects, have one cluster id each
\* and the same one, whether or not they are the lowest archive id of
\* their fingerprint.
C18_ChainedIdsShareCluster ==
    ClustersWritten =>
        \A a, b \in TableArchiveIds(WrittenTable) :
            (a # b /\ Chained(WrittenTable, a, b))
                => /\ Cardinality(ClusterIdsOf(a)) = 1
                   /\ ClusterIdsOf(a) = ClusterIdsOf(b)

\* C18 witness: the image pass clustered archive id 2, which is not the
\* lowest of its fingerprint, with archive id 3, whose fingerprint is 3 bits
\* from it, and through it with archive id 1, 6 bits away.
C18_Witness ==
    /\ cluster_run.records_of = "image"
    /\ WrittenTable = (0 :> {1} @@ 7 :> {1, 2} @@ 63 :> {3})
    /\ Min(WrittenTable[7]) # 2
    /\ ClusterIdsOf(1) = {0} /\ ClusterIdsOf(2) = {0} /\ ClusterIdsOf(3) = {0}
    /\ ad_clusters.image = (1 :> 0 @@ 2 :> 0 @@ 3 :> 0)

---------------------------------------------------------------------------
(* C19 *)

\* C19: every archive id of the fingerprint table of a pass has exactly one
\* record among those the pass writes, also when it shares its fingerprint
\* with no archive id and no fingerprint is near.
C19_EveryArchiveIdHasOneClusterRecord ==
    ClustersWritten =>
        \A archive_id \in TableArchiveIds(WrittenTable) :
            Cardinality({r \in cluster_run.ad_cluster_records :
                            r.archive_id = archive_id}) = 1

---------------------------------------------------------------------------
(* C20 *)

\* C20: when the read of the fingerprints or the union phase of the text or
\* the image pass raised, the run has written no cluster assignment, text
\* or image.
C20_NothingWrittenUnlessRunSucceeds ==
    cluster_run.failed_in \in {"read", "query"} =>
        /\ ad_clusters.text = EmptyClusterTable
        /\ ad_clusters.image = EmptyClusterTable

---------------------------------------------------------------------------
(* C21 *)

\* The archive ids an iteration of the query loop of a pass connects.
NearArchiveIds(pass, index, sim_hash) ==
    IF pass = "text"
    THEN {int(x) : x \in get_near_dups(index, sim_hash)}
    ELSE {x[2].archive_id :
            x \in find(index, ArchiveIDAndSimHash(-1, sim_hash), BIT_DIFFERENCE_THRESHOLD)}

\* The query loop of a pass run over the simhashes of todo from the lowest
\* to the highest.
RECURSIVE AscendingRun(_, _, _, _)
AscendingRun(pass, index, union_find, todo) ==
    IF todo = {}
    THEN union_find
    ELSE LET sim_hash == Min(todo)
         IN  AscendingRun(pass, index,
                 union_pairs(union_find,
                             combinations(NearArchiveIds(pass, index, sim_hash))),
                 todo \ {sim_hash})

\* The components a run of the pass over the table in that order ends with.
PartitionOfAscendingRun(pass, table) ==
    components(AscendingRun(
        pass,
        IF pass = "text"
        THEN SimhashIndex(min_archive_id_and_sim_hash_tuples(table), BIT_DIFFERENCE_THRESHOLD)
        ELSE BKTree(table),
        connect_same_simhash(UnionFind, table),
        DOMAIN table))

\* The partition of archive ids the written records make.
WrittenPartition ==
    {{r.archive_id : r \in {r \in cluster_run.ad_cluster_records : r.ad_cluster_id = s.ad_cluster_id}} :
        s \in cluster_run.ad_cluster_records}

\* C21: the partition of archive ids a pass writes is the one a run of that
\* pass over the same fingerprint table gives when it takes the fingerprints
\* in ascending order: whatever the order the fingerprints were taken in,
\* every run over a table writes the same set of sets; only the numbers of
\* the clusters may differ.
C21_PartitionIndependentOfOrder ==
    ClustersWritten =>
        WrittenPartition = PartitionOfAscendingRun(cluster_run.records_of, WrittenTable)

\* C21 witness: the image pass wrote one cluster of three archive ids after
\* a run that took the lowest fingerprint of its table last.
C21_Witness ==
    /\ cluster_run.records_of = "image"
    /\ WrittenTable = (0 :> {1, 2} @@ 63 :> {3} @@ 120 :> {1, 3})
    /\ cluster_run.last_queried = Min(DOMAIN WrittenTable)
    /\ WrittenPartition = {{1, 2, 3}}

---------------------------------------------------------------------------
(* C22 *)

\* C22: update_ad_clusters ends in an error only when a read of the
\* fingerprints or a step of a union phase raised; once the text and the
\* image records are committed it returns.
C22_RunWithoutErrorReturns ==
    cluster_run.pc = "failed" => cluster_run.failed_in \in {"read", "query"}

---------------------------------------------------------------------------
(* C23 *)

\* Every committed creative row belongs to an archive id whose metadata row
\* was written.
C23_State ==
    \A row \in ad_creatives : ad_snapshot_metadata[row.archive_id].lease > 0

\* A step changes the creative rows or the metadata rows only by committing
\* both upserts of the chunk in hand.
C23_Step ==
    (ad_creatives' # ad_creatives \/ ad_snapshot_metadata' # ad_snapshot_metadata)
    => /\ pc = "persist_metadata"
       /\ ad_creatives' = insert_ad_creative_records(ad_creatives, ad_creative_records)
       /\ ad_snapshot_metadata' =
             update_ad_snapshot_metadata(ad_snapshot_metadata, snapshot_metadata_records,
                                         Len(leases))

\* C23: the creative rows and the metadata rows of a chunk are committed
\* together or not at all; no state of the store holds the ones without the
\* others, also after a failure between the two upserts.
C23_ChunkCommitsAtomically == []C23_State /\ [][C23_Step]_vars

\* C23 witness: the first chunk of batch 1 is committed; a database call of
\* the transaction of the second chunk raised, and neither the creative rows
\* nor the metadata row of its archive id are in the store.
C23_Witness ==
    /\ pc = "handler"
    /\ error.kind = "DatabaseError"
    /\ Len(leases) = 1
    /\ leases[1].batch_id = 1
    /\ leases[1].chunks_committed = 1
    /\ ad_creative_records # <<>>
    /\ \A i \in 1..Len(ad_creative_records) :
          /\ ad_creative_records[i] \notin ad_creatives
          /\ ad_snapshot_metadata[ad_creative_records[i].archive_id].lease = 0
    /\ ad_creatives # {}

---------------------------------------------------------------------------
(* C24 *)

\* The row names no object, or one the bucket holds.
MediaStored(row) ==
    /\ row.image_bucket_path # None => row.image_bucket_path \in DOMAIN images_bucket
    /\ row.video_bucket_path # None => row.video_bucket_path \in DOMAIN videos_bucket

\* C24: every creative row, committed or of the chunk in hand and so not yet
\* committed, that has an image_bucket_path or a video_bucket_path names an
\* object the bucket already holds.
C24_MediaStoredBeforeReferenced == \A row \in EmittedRows : MediaStored(row)

\* C24 witness: a committed row names an image object and a video object, and
\* a row of the chunk in hand, not committed, names an image object.
C24_Witness ==
    /\ \E row \in ad_creatives :
          /\ row.image_bucket_path # None
          /\ row.video_bucket_path # None
    /\ \E i \in 1..Len(ad_creative_records) :
          /\ ad_creative_records[i] \notin ad_creatives
          /\ ad_creative_records[i].image_bucket_path # None

---------------------------------------------------------------------------
(* C25 *)

\* The step is the release of the batch in hand by the inner handler.
IsReleaseStep ==
    /\ Len(leases) > 0
    /\ Len(leases') = Len(leases)
    /\ ThisLease'.released > ThisLease.released

\* A release leaves both tables as they are and puts the batch back among the
\* batches that can be leased.
C25_ReleaseStep ==
    IsReleaseStep =>
        /\ UNCHANGED table_vars
        /\ current_batch_id \in LeasableBatches(fetch_batches')

\* No step removes a committed creative: a row with its unique constraint
\* attributes stays in the table.
C25_RowsStay ==
    \A row \in ad_creatives :
        \E kept \in ad_creatives' : UniqueConstraintAttrs(kept) = UniqueConstraintAttrs(row)

\* No two creative rows have the same unique constraint attributes.
C25_NoDuplicateRow ==
    \A r1, r2 \in ad_creatives :
        UniqueConstraintAttrs(r1) = UniqueConstraintAttrs(r2) => r1 = r2

\* C25: releasing a batch after k committed chunks leaves the committed rows
\* as they are and makes the batch leasable again; processing it again under
\* a later lease adds no second row for a creative already stored.
C25_ReleaseKeepsCommittedWork ==
    /\ []C25_NoDuplicateRow
    /\ [][C25_ReleaseStep /\ C25_RowsStay]_vars

\* C25 witness: batch 1 was released after its first chunk was committed, was
\* leased again, and the second lease has committed the first chunk again.
C25_Witness ==
    /\ Len(leases) = 2
    /\ leases[1].batch_id = 1
    /\ leases[2].batch_id = 1
    /\ leases[1].released = 1
    /\ leases[1].chunks_committed = 1
    /\ leases[2].chunks_committed >= 1
    /\ \E row \in ad_creatives : ad_snapshot_metadata[row.archive_id].lease = 2

---------------------------------------------------------------------------
(* C26 *)

\* The errors of the extractor that say the snapshot cannot be had.
SnapshotUnavailableErrors ==
    {"SnapshotNoContentFoundError", "SnapshotMissingMediaError",
     "SnapshotInvalidIdError", "SnapshotWrongAdArchiveIdError",
     "SnapshotAgeRestrictionError", "SnapshotIntellectualPropertyViolationError",
     "SnapshotPermanentlyUnavailableError"}

\* The step is a retrieve_ad that returned to process_archive_ids: its
\* metadata record is appended.
IsRetrievedStep ==
    /\ pc = "fetch"
    /\ Len(snapshot_metadata_records') = Len(snapshot_metadata_records) + 1

\* The status of the metadata record the step appended.
StepFetchStatus ==
    snapshot_metadata_records'[Len(snapshot_metadata_records')].snapshot_fetch_status

\* What the extractor answered in the step.
StepOutcome == last_retrieve'.outcome

\* The status recorded for every answer of the extractor, by number.
C26_StatusOfOutcome ==
    /\ StepOutcome = "returned" /\ last_retrieve'.creatives > 0 => StepFetchStatus = 1
    /\ StepOutcome = "returned" /\ last_retrieve'.creatives = 0 => StepFetchStatus = 5
    /\ StepOutcome \in {"SnapshotNoContentFoundError", "SnapshotMissingMediaError"}
          => StepFetchStatus = 2
    /\ StepOutcome \in {"SnapshotInvalidIdError", "SnapshotWrongAdArchiveIdError"}
          => StepFetchStatus = 3
    /\ StepOutcome = "SnapshotAgeRestrictionError" => StepFetchStatus = 4
    /\ StepOutcome = "SnapshotIntellectualPropertyViolationError" => StepFetchStatus = 6
    /\ StepOutcome = "SnapshotPermanentlyUnavailableError" => StepFetchStatus = 7

\* After the record is appended the loop goes on: no error is in flight and
\* the batch stays as it is.
C26_MovesOn ==
    /\ pc' \in {"fetch", "persist"}
    /\ idx' = idx + 1
    /\ UNCHANGED <<error, fetch_batches, leases>>

\* The error the releasing handler is entered with is never one of a
\* snapshot that cannot be had.
C26_NeverReleasedForSnapshot ==
    pc = "handler" => error.kind \notin SnapshotUnavailableErrors

\* C26: the status recorded for an archive id is SUCCESS (1) for creatives
\* found, NO_AD_CREATIVES_FOUND (5) for none, NO_CONTENT_FOUND (2),
\* INVALID_ID_ERROR (3), AGE_RESTRICTION_ERROR (4),
\* INTELLECTUAL_PROPERTY_VIOLATION_ERROR (6) and
\* SNAPSHOT_PERMANENTLY_UNAVAILABLE_ERROR (7) for the errors of these names;
\* after such an error the worker goes on with the batch and does not release it.
C26_FetchStatusMapping ==
    /\ []C26_NeverReleasedForSnapshot
    /\ [][IsRetrievedStep => C26_StatusOfOutcome /\ C26_MovesOn]_vars

\* C26 witness: the extractor raised SnapshotMissingMediaError for archive
\* id 1; the record with NO_CONTENT_FOUND is the last of the chunk's records
\* and the worker is at the next archive id of the batch it still holds.
C26_Witness ==
    /\ pc = "fetch"
    /\ error = NoError
    /\ last_retrieve.outcome = "SnapshotMissingMediaError"
    /\ last_retrieve.archive_id = 1
    /\ idx = 2
    /\ snapshot_metadata_records = <<[archive_id |-> 1, snapshot_fetch_status |-> 2]>>
    /\ fetch_batches[current_batch_id] = "in_flight"
    /\ ThisLease.released = 0

---------------------------------------------------------------------------
(* C27 *)

\* The components the pass numbered.
NumberedComponents == components(cluster_run.union_find)

\* The cluster ids of the records the pass wrote.
WrittenClusterIds == {r.ad_cluster_id : r \in cluster_run.ad_cluster_records}

\* C27: the records of one pass number its C components with the ids
\* 0..C-1: every archive id of a component has the id of the component,
\* archive ids of different components have different ids, and this holds
\* for the image pass as for the text pass, whose numbers it does not continue.
C27_ComponentsNumberedFromZero ==
    ClustersWritten =>
        /\ WrittenClusterIds = 0..(Cardinality(NumberedComponents) - 1)
        /\ \A c \in NumberedComponents :
              \E id \in WrittenClusterIds : \A a \in c : ClusterIdsOf(a) = {id}
        /\ \A c, d \in NumberedComponents :
              c # d => \A a \in c, b \in d : ClusterIdsOf(a) \cap ClusterIdsOf(b) = {}

\* C27 witness: the text pass numbered two components 0 and 1, and the image
\* pass after it numbered its two components, one of them of two archive
\* ids, 0 and 1 again.
C27_Witness ==
    /\ cluster_run.records_of = "image"
    /\ {ad_clusters.text[a] : a \in DOMAIN ad_clusters.text} = {0, 1}
    /\ Cardinality(NumberedComponents) = 2
    /\ \E c \in NumberedComponents : Cardinality(c) = 2
    /\ WrittenClusterIds = {0, 1}

---------------------------------------------------------------------------
(* C28 *)

\* No call is at an attempt after the fourth, and the call that surfaced the
\* error did so at the fourth.
C28_State ==
    \A u \in Uploaders :
        /\ uploaders[u].attempt <= 4
        /\ uploaders[u].returned = <<"RetryError">> => uploaders[u].attempt = 4

\* The attempts of a call are counted one by one: a call starts at attempt 1,
\* another attempt is made only after one that failed, and the step that
\* returns the blob id or surfaces the error makes none.
C28_Step ==
    \A u \in Uploaders :
        /\ uploaders'[u].attempt # uploaders[u].attempt =>
              \/ uploaders[u].pc = "idle" /\ uploaders'[u].attempt = 1
              \/ /\ uploaders[u].pc \in {"exists", "upload"}
                 /\ uploaders'[u].pc = "exists"
                 /\ uploaders'[u].attempt = uploaders[u].attempt + 1
        /\ uploaders[u].pc # "idle" /\ uploaders'[u].pc = "idle" =>
              /\ uploaders'[u].attempt = uploaders[u].attempt
              /\ uploaders'[u].returned # None

\* C28: a call of upload_blob makes at most 4 attempts: when every attempt
\* fails the error surfaces after the fourth, and a call that succeeds at
\* attempt n has made n attempts and makes no more.
C28_AtMostFourAttempts == []C28_State /\ [][C28_Step]_vars

\* C28 witness: one caller's call failed four times and surfaced the error;
\* the other's failed twice and returned the blob id at the third attempt.
C28_Witness ==
    /\ uploaders[1].pc = "idle"
    /\ uploaders[1].returned = <<"RetryError">>
    /\ uploaders[1].attempt = 4
    /\ uploaders[2].pc = "idle"
    /\ uploaders[2].returned = BlobId(UploadPath(uploaders[2].image))
    /\ uploaders[2].attempt = 3

---------------------------------------------------------------------------
(* C29 *)

\* At most one browser context is open; none is while the generator is about
\* to open one; and the retriever the worker calls was built on the one that
\* is open.
C29_State ==
    /\ Cardinality(browser_run.open) <= 1
    /\ browser_run.pc = "enter" => browser_run.open = {}
    /\ browser_run.pc = "worker" /\ browser_run.creative_retriever # 0 =>
          browser_run.open = {browser_run.creative_retriever}

\* A step that opens a browser context starts with none open.
C29_Step == ~(browser_run'.open \subseteq browser_run.open) => browser_run.open = {}

\* C29: at most one browser session is open at any time: every recycle
\* closes the session of the retriever in use before it opens the next, and
\* the retriever the worker uses is the one built on the open session.
C29_AtMostOneBrowserOpen == []C29_State /\ [][C29_Step]_vars

\* C29 witness: after the second recycle the worker has retrieved a snapshot
\* with the retriever built on the third browser, the only one open.
C29_Witness ==
    /\ browser_run.pc = "worker"
    /\ browser_run.resets = 3
    /\ browser_run.creative_retriever = 3
    /\ browser_run.open = {3}
    /\ browser_run.used >= 1

---------------------------------------------------------------------------
(* C30 *)

\* The batches the store holds as leased and neither released nor completed.
InFlightBatches == {b \in BatchIds : fetch_batches[b] = "in_flight"}

\* C30: the worker holds at most one batch in flight, and whenever it is
\* about to ask for a batch, every batch it leased before has been released
\* or marked completed and the store holds none as in flight.
C30_AtMostOneBatchInFlight ==
    /\ Cardinality(InFlightBatches) <= 1
    /\ pc = "lease" =>
          /\ InFlightBatches = {}
          /\ \A i \in 1..Len(leases) : leases[i].released + leases[i].completed = 1

\* C30 witness: the worker is about to ask for a batch again after a batch
\* that met a rate-limit signal, was released, alerted and slept through, and
\* a batch after it that was processed and marked completed.
C30_Witness ==
    /\ pc = "lease"
    /\ Len(leases) = 2
    /\ leases[1].released = 1 /\ leases[1].alerts = 1 /\ leases[1].completed = 0
    /\ leases[2].completed = 1 /\ leases[2].released = 0

=============================================================================
